---- MODULE Spec2Model ----
(***************************************************************************)
(* Verification model of the clinical-decision-support agent backend:      *)
(*   - app/agent/orchestrator.py   the step pipeline (Spec)                *)
(*   - app/services/medgemma.py    generate / generate_structured and the  *)
(*                                 JSON extraction and repair helpers      *)
(*   - tracks/iterative/refiner.py the iterative self-critique loop        *)
(*   - tracks/arbitrated/          the specialist / arbiter rounds         *)
(*   - app/api/ws.py               the WebSocket endpoint                  *)
(* Each component has its own specification over its own variables; the    *)
(* variables of the other components are held at their initial values.     *)
(***************************************************************************)
EXTENDS Integers, Sequences, FiniteSets, TLC

VARIABLES
    \* ---- Orchestrator (app/agent/orchestrator.py) ----
    case,          \* CaseSubmission flags: include_drug_check, include_guidelines
    steps,         \* self._state.steps : list[AgentStep]
    slots,         \* self._state artifact slots (None or the artifact)
    completed_at,  \* self._state.completed_at is set
    pc,            \* the suspension point Orchestrator.run is parked at
    inflight,      \* step ids whose _run_step task is awaited by asyncio.gather
    to_yield,      \* step ids the generator still has to yield in its current loop
    emitted,       \* updates yielded so far: <<step_id, status at the yield>>
    observed,      \* per step id, the sequence of statuses the step has taken
    writes,        \* log of slot assignments: <<slot, writing step>>
    pipeline_out,  \* what run_cds_pipeline returned to its caller
    \* ---- JSON repair round trip (app/services/medgemma.py) ----
    x,             \* the JSON value the endpoint was meant to return
    doc,           \* the text handed to _repair_truncated_json
    cut,           \* how the text was truncated: closers dropped, trailing separator
    repaired,      \* the result of _repair_truncated_json (None or a str)
    parsed,        \* the result of json.loads on the repaired text
    json_pc,       \* the stage of the round trip
    \* ---- generate_structured / _generate_api (app/services/medgemma.py) ----
    system_prompt, \* a system prompt was passed
    gs_pc,         \* where generate_structured is
    gs_attempt,    \* its loop variable attempt
    gs_last_error, \* its last_error
    gs_result,     \* the validated value it returns
    calls,         \* the prompts of the generate calls it made
    raws,          \* the texts those calls returned
    tries,         \* per round: the candidates json.loads was given, the one accepted
    api_pc,        \* where _generate_api is
    api_attempt,   \* its loop variable attempt
    last_error,    \* its last_error (the message)
    requests,      \* every request sent to the endpoint, with its answer
    delays,        \* every asyncio.sleep of the retry loop
    \* ---- IterativeRefiner.refine (tracks/iterative/refiner.py) ----
    max_iterations,
    convergence_threshold,
    history,
    current,
    iteration,
    critiques,     \* generate_structured calls made by refine
    ref_pc,        \* where refine is
    returned,      \* the artifact refine returned
    initial_reasoning, \* the artifact refine was called with
    outcomes,      \* how each critique call ended, in call order
    \* ---- run_case_arbitrated (tracks/arbitrated/run_arbitrated.py) ----
    arb_max_rounds, \* config.max_rounds
    round_num,
    consensus,     \* None or the arbiter's merged artifact
    round_results, \* per round, the dict of specialist results in insertion order
    arb_feedback,  \* the feedback dict handed to the round's specialists
    fb_queue,      \* specialist_results.items() generate_feedback still has to visit
    arb_inflight,  \* specialist ids whose reason() task asyncio.gather awaits
    gathered,      \* per specialist id, what its task of this round ended with
    arb_log,       \* every model call of the arbitration, in completion order
    final_report,  \* the report the case is scored on
    merge_outputs, \* what arbiter.merge returned, round by round
    contexts,      \* additional_context of each specialist task of the last dispatch
    arb_pc,        \* where run_case_arbitrated is
    \* ---- wait_until_ready (app/services/medgemma.py) ----
    ready_timeout, \* the argument timeout
    poll_interval, \* the argument poll_interval
    has_on_waiting, \* an on_waiting callback was passed
    now,           \* time.monotonic() - start
    ready_attempt,
    probes,        \* every check_readiness call: its result and the time it returned at
    waiting_calls, \* the elapsed argument of every on_waiting call
    ready_result,  \* what wait_until_ready returned
    ready_pc,      \* where wait_until_ready is
    \* ---- _extract_json (app/services/medgemma.py) ----
    reply,         \* how the reply is made up: prose, fenced blocks or a bare value
    reply_text,    \* the text handed to _extract_json
    extracted,     \* what _extract_json returned
    ext_pc,        \* whether _extract_json has been called
    \* ---- agent_websocket (app/api/ws.py) ----
    ws_input,      \* what the client sends after connecting
    ws_pc,         \* where agent_websocket is
    ws_sent,       \* the messages sent to the client, in order
    ws_connected,  \* the client is still there
    ws_seen        \* on_waiting calls, then yielded updates, handled so far

orchVars == <<case, steps, slots, completed_at, pc, inflight, to_yield, emitted,
              observed, writes, pipeline_out>>

jsonVars == <<x, doc, cut, repaired, parsed, json_pc>>

genVars == <<system_prompt, gs_pc, gs_attempt, gs_last_error, gs_result, calls, raws, tries,
             api_pc, api_attempt, last_error, requests, delays>>

refVars == <<max_iterations, convergence_threshold, history, current, iteration,
             critiques, ref_pc, returned, initial_reasoning, outcomes>>

arbVars == <<arb_max_rounds, round_num, consensus, round_results, arb_feedback,
             fb_queue, arb_inflight, gathered, arb_log, final_report, merge_outputs,
             contexts, arb_pc>>

readyVars == <<ready_timeout, poll_interval, has_on_waiting, now, ready_attempt,
               probes,
               waiting_calls, ready_result, ready_pc>>

extVars == <<reply, reply_text, extracted, ext_pc>>

wsVars == <<ws_input, ws_pc, ws_sent, ws_connected, ws_seen>>

vars == <<orchVars, jsonVars, genVars, refVars, arbVars, readyVars, extVars,
          wsVars>>

\* ------------------------------------------------------------------------
\* Orchestrator: data
\* ------------------------------------------------------------------------

PENDING   == "pending"
RUNNING   == "running"
COMPLETED == "completed"
FAILED    == "failed"
SKIPPED   == "skipped"

AgentStepStatus == {PENDING, RUNNING, COMPLETED, FAILED, SKIPPED}
Terminal        == {COMPLETED, FAILED, SKIPPED}

StepIds == {"parse", "reason", "drugs", "guidelines", "conflicts", "synthesize"}

NoError          == [kind |-> "none", ref |-> "none"]
ExceptionError(id) == [kind |-> "exception", ref |-> id]
\* f"Skipped: prerequisite step '{after_step_id}' failed"
SkippedError(after) == [kind |-> "skipped_prerequisite", ref |-> after]

AgentStep(id) ==
    [step_id |-> id, status |-> PENDING, output_summary |-> FALSE,
     duration_ms |-> FALSE, error |-> NoError]

CreateSteps(c) ==
    <<AgentStep("parse"), AgentStep("reason")>>
    \o (IF c.include_drug_check THEN <<AgentStep("drugs")>> ELSE <<>>)
    \o (IF c.include_guidelines THEN <<AgentStep("guidelines")>> ELSE <<>>)
    \o (IF c.include_guidelines THEN <<AgentStep("conflicts")>> ELSE <<>>)
    \o <<AgentStep("synthesize")>>

SlotNames == {"patient_profile", "clinical_reasoning", "drug_interactions",
              "guideline_retrieval", "conflict_detection", "final_report"}

\* mutant: the guidelines step stores its result in the drug check's slot
SlotOfShared(id) ==
    CASE id = "parse"      -> "patient_profile"
      [] id = "reason"     -> "clinical_reasoning"
      [] id = "drugs"      -> "drug_interactions"
      [] id = "guidelines" -> "drug_interactions"
      [] id = "conflicts"  -> "conflict_detection"
      [] OTHER             -> "final_report"

\* the slots of self._state a step function reads (lines 249-338)
ReadsOf(id) ==
    CASE id = "parse"      -> {}
      [] id = "reason"     -> {"patient_profile"}
      [] id = "drugs"      -> {"patient_profile", "clinical_reasoning"}
      [] id = "guidelines" -> {"patient_profile", "clinical_reasoning"}
      [] id = "conflicts"  -> {"patient_profile", "clinical_reasoning",
                               "drug_interactions", "guideline_retrieval"}
      [] OTHER             -> {"patient_profile", "clinical_reasoning",
                               "drug_interactions", "guideline_retrieval",
                               "conflict_detection"}

SlotOf(id) ==
    CASE id = "parse"      -> "patient_profile"
      [] id = "reason"     -> "clinical_reasoning"
      [] id = "drugs"      -> "drug_interactions"
      [] id = "guidelines" -> "guideline_retrieval"
      [] id = "conflicts"  -> "conflict_detection"
      [] OTHER             -> "final_report"

\* _get_step: index of the step with this id (the ids of a case are unique)
StepIndex(stp, id) == CHOOSE i \in 1..Len(stp) : stp[i].step_id = id

GetStep(stp, id) == stp[StepIndex(stp, id)]

HasStep(stp, id) == \E i \in 1..Len(stp) : stp[i].step_id = id

\* ------------------------------------------------------------------------
\* Orchestrator: the tools, by what they can return to _run_step
\* ------------------------------------------------------------------------

Ok(v)  == [ok |-> TRUE,  val |-> v]
Raised == [ok |-> FALSE, val |-> "None"]

\* how a generate_structured call ends: it returns a validated value, raises
\* ValueError after its rounds, or lets the error of generate through
StructuredEndings == {"returned", "raised", "propagated"}

\* mutant: the error of generate_structured leaves the tool
PatientParserRunRaises(ending) ==
    IF ending = "returned" THEN Ok("parsed") ELSE Raised

\* patient_parser.py 60-81: the profile of the model, or on any Exception a
\* profile built from the raw text
PatientParserRun(ending) ==
    IF ending = "returned" THEN Ok("parsed") ELSE Ok("fallback")

\* PatientParserTool.run catches every Exception of generate_structured and
\* returns a profile built from the raw text instead.
PatientParserOutcomes == {PatientParserRun(ending) : ending \in StructuredEndings}

\* ConflictDetectionTool.run returns an empty result without any generation
\* call when no guideline excerpt is available.
ConflictOutcomes(sl) ==
    IF sl["guideline_retrieval"] \in {"None", "no_excerpts"}
    THEN {Ok("no_guidelines")}
    ELSE {Ok("conflicts"), Raised}

ToolOutcomes(id, sl) ==
    CASE id = "parse"      -> PatientParserOutcomes
      [] id = "reason"     -> IF sl["patient_profile"] = "None"
                              THEN {Raised} ELSE {Ok("reasoning"), Raised}
      [] id = "drugs"      -> IF sl["patient_profile"] = "None"
                              THEN {Raised} ELSE {Ok("interactions"), Raised}
      [] id = "guidelines" -> IF sl["clinical_reasoning"] = "None"
                              THEN {Raised}
                              ELSE {Ok("excerpts"), Ok("no_excerpts"), Raised}
      [] id = "conflicts"  -> ConflictOutcomes(sl)
      [] OTHER             -> {Ok("report"), Raised}

\* ------------------------------------------------------------------------
\* Orchestrator: helpers of run
\* ------------------------------------------------------------------------

\* a status assignment, recorded in the step's observed sequence when it
\* changes the status
Observe(obs, id, st) ==
    IF obs[id][Len(obs[id])] = st THEN obs
    ELSE [obs EXCEPT ![id] = Append(@, st)]

\* _mark_running
MarkRunning(stp, id) ==
    [stp EXCEPT ![StepIndex(stp, id)].status = RUNNING]

\* mutant: the loop marks every other step, whatever its position or status
SkipsStepAnyStatus(stp, after, i) == stp[i].step_id # after

\* _skip_remaining_steps: the condition under which the loop marks step i
SkipsStep(stp, after, i) ==
    /\ i > StepIndex(stp, after)
    /\ stp[i].status = PENDING

\* mutant: the error text names the skipped step itself
SkipRemainingNamesSelf(stp, after) ==
    [i \in 1..Len(stp) |->
        IF SkipsStep(stp, after, i)
        THEN [stp[i] EXCEPT !.status = SKIPPED,
                            !.error = SkippedError(stp[i].step_id)]
        ELSE stp[i]]

\* _skip_remaining_steps: the steps after the call
SkipRemaining(stp, after) ==
    [i \in 1..Len(stp) |->
        IF SkipsStep(stp, after, i)
        THEN [stp[i] EXCEPT !.status = SKIPPED, !.error = SkippedError(after)]
        ELSE stp[i]]

\* mutant: a failed step skips the pending steps after it, whichever it is
RunStepResultCascading(stp, id, out) ==
    IF out.ok
    THEN [stp EXCEPT ![StepIndex(stp, id)] =
            [@ EXCEPT !.status = COMPLETED, !.output_summary = TRUE,
                      !.duration_ms = TRUE]]
    ELSE SkipRemaining(
            [stp EXCEPT ![StepIndex(stp, id)] =
                [@ EXCEPT !.status = FAILED, !.error = ExceptionError(id),
                          !.duration_ms = TRUE]], id)

\* mutant: the duration is recorded on the success path only
RunStepResultNoFinally(stp, id, out) ==
    [stp EXCEPT ![StepIndex(stp, id)] =
        IF out.ok
        THEN [@ EXCEPT !.status = COMPLETED, !.output_summary = TRUE,
                       !.duration_ms = TRUE]
        ELSE [@ EXCEPT !.status = FAILED, !.error = ExceptionError(id)]]

\* _run_step, from the return of the awaited tool: the step function has set
\* the output summary on success; the exception text becomes the error
RunStepResult(stp, id, out) ==
    [stp EXCEPT ![StepIndex(stp, id)] =
        IF out.ok
        THEN [@ EXCEPT !.status = COMPLETED, !.output_summary = TRUE,
                       !.duration_ms = TRUE]
        ELSE [@ EXCEPT !.status = FAILED, !.error = ExceptionError(id),
                       !.duration_ms = TRUE]]

\* mutant: the step function assigns its slot before the tool has returned
WriteSlotAlways(sl, id, out) ==
    [sl EXCEPT ![SlotOf(id)] = IF out.ok THEN out.val ELSE "partial"]

\* the assignment to self._state.<slot> made by the step function
WriteSlot(sl, id, out) ==
    IF out.ok THEN [sl EXCEPT ![SlotOf(id)] = out.val] ELSE sl

LogWrite(w, id, out) ==
    IF out.ok THEN Append(w, <<SlotOf(id), id>>) ELSE w

\* _skip_remaining_steps: the list it returns, in step order
RECURSIVE SkippedFrom(_, _, _)
SkippedFrom(stp, after, i) ==
    IF i > Len(stp) THEN <<>>
    ELSE (IF SkipsStep(stp, after, i) THEN <<stp[i].step_id>> ELSE <<>>)
         \o SkippedFrom(stp, after, i + 1)

SkippedIds(stp, after) == SkippedFrom(stp, after, 1)

RECURSIVE ObserveAll(_, _, _)
ObserveAll(obs, ids, st) ==
    IF ids = <<>> THEN obs
    ELSE ObserveAll(Observe(obs, Head(ids), st), Tail(ids), st)

RECURSIVE MarkAllRunning(_, _)
MarkAllRunning(stp, ids) ==
    IF ids = <<>> THEN stp
    ELSE MarkAllRunning(MarkRunning(stp, Head(ids)), Tail(ids))

\* the (id, fn) pairs of parallel_tasks, in the order run builds them
ParallelTasks(c) ==
    (IF c.include_drug_check THEN <<"drugs">> ELSE <<>>)
    \o (IF c.include_guidelines THEN <<"guidelines">> ELSE <<>>)

\* mutant: the yields of run report the step as it was when it started
EmitRunning(id, stp) == <<id, RUNNING>>

\* the update a yield hands out: the step, read by the consumer at the yield
Emit(id, stp) == <<id, GetStep(stp, id).status>>

\* get_result
GetResult == slots["final_report"]

\* ------------------------------------------------------------------------
\* run_cds_pipeline (validation/base.py): the caller that drains run
\* ------------------------------------------------------------------------

\* the error of the returned tuple: None, or a text kept as its parts
PipelineError(kind, parts) == [kind |-> kind, parts |-> parts]

NotReturned ==
    [returned |-> FALSE, report |-> "None", error |-> PipelineError("None", <<>>)]

\* mutant: only the first failed step is reported
FailedStepErrorsFirst(stp) ==
    LET failed == SelectSeq(stp, LAMBDA s : s.status = FAILED)
    IN  IF failed = <<>> THEN <<>>
        ELSE <<[step_id |-> failed[1].step_id, error |-> failed[1].error]>>

\* base.py 116-121: f"{s.step_id}: {s.error}" for the failed steps, in step order
FailedStepErrors(stp) ==
    LET failed == SelectSeq(stp, LAMBDA s : s.status = FAILED)
    IN  [i \in 1..Len(failed) |->
            [step_id |-> failed[i].step_id, error |-> failed[i].error]]

\* base.py 112-125: the tuple returned once run is exhausted; the joined
\* error text is kept as the list of its parts
PipelineResult(stp, report) ==
    IF report = "None"
    THEN [returned |-> TRUE, report |-> "None",
          error |-> IF FailedStepErrors(stp) # <<>>
                    THEN PipelineError("failed_steps", FailedStepErrors(stp))
                    ELSE PipelineError("no_report", <<>>)]
    ELSE [returned |-> TRUE, report |-> report,
          error |-> PipelineError("None", <<>>)]

\* ------------------------------------------------------------------------
\* Orchestrator: run, one action per stretch of code between two suspensions
\* ------------------------------------------------------------------------

OrchInit ==
    /\ case \in [include_drug_check : BOOLEAN, include_guidelines : BOOLEAN]
    /\ steps = CreateSteps(case)
    /\ slots = [s \in SlotNames |-> "None"]
    /\ completed_at = FALSE
    /\ pc = "start"
    /\ inflight = {}
    /\ to_yield = <<>>
    /\ emitted = <<>>
    /\ observed = [id \in StepIds |-> <<PENDING>>]
    /\ writes = <<>>
    /\ pipeline_out = NotReturned

\* yield self._mark_running(id), parking the generator at next
YieldRunning(id, next) ==
    /\ steps' = MarkRunning(steps, id)
    /\ observed' = Observe(observed, id, RUNNING)
    /\ emitted' = Append(emitted, <<id, RUNNING>>)
    /\ pc' = next

\* step = await self._run_step(id, fn); yield step
RunAndYield(id, next) ==
    \E out \in ToolOutcomes(id, slots) :
        /\ steps' = RunStepResult(MarkRunning(steps, id), id, out)
        /\ observed' = Observe(Observe(observed, id, RUNNING), id,
                               GetStep(steps', id).status)
        /\ slots' = WriteSlot(slots, id, out)
        /\ writes' = LogWrite(writes, id, out)
        /\ emitted' = Append(emitted, Emit(id, steps'))
        /\ pc' = next

\* the FAILED branch after parse or reason, up to its first yield or return
SkipAndYield(after) ==
    LET ids == SkippedIds(steps, after) IN
    /\ steps' = SkipRemaining(steps, after)
    /\ observed' = ObserveAll(observed, ids, SKIPPED)
    /\ IF ids = <<>>
       THEN /\ completed_at' = TRUE
            /\ pc' = "done"
            /\ UNCHANGED <<to_yield, emitted>>
       ELSE /\ emitted' = Append(emitted, <<Head(ids), SKIPPED>>)
            /\ to_yield' = Tail(ids)
            /\ pc' = "yield_skipped"
            /\ UNCHANGED completed_at

\* line 140
StartParse ==
    /\ pc = "start"
    /\ YieldRunning("parse", "parse_running")
    /\ UNCHANGED <<case, slots, completed_at, inflight, to_yield, writes>>
    /\ UNCHANGED pipeline_out
    /\ UNCHANGED <<jsonVars, genVars, refVars, arbVars, readyVars, extVars, wsVars>>

\* lines 141-142
RunParse ==
    /\ pc = "parse_running"
    /\ RunAndYield("parse", "parse_yielded")
    /\ UNCHANGED <<case, completed_at, inflight, to_yield>>
    /\ UNCHANGED pipeline_out
    /\ UNCHANGED <<jsonVars, genVars, refVars, arbVars, readyVars, extVars, wsVars>>

\* lines 144-152
AfterParse ==
    /\ pc = "parse_yielded"
    /\ IF GetStep(steps, "parse").status = FAILED
       THEN SkipAndYield("parse")
       ELSE /\ YieldRunning("reason", "reason_running")
            /\ UNCHANGED <<completed_at, to_yield>>
    /\ UNCHANGED <<case, slots, inflight, writes>>
    /\ UNCHANGED pipeline_out
    /\ UNCHANGED <<jsonVars, genVars, refVars, arbVars, readyVars, extVars, wsVars>>

\* lines 153-154
RunReason ==
    /\ pc = "reason_running"
    /\ RunAndYield("reason", "reason_yielded")
    /\ UNCHANGED <<case, completed_at, inflight, to_yield>>
    /\ UNCHANGED pipeline_out
    /\ UNCHANGED <<jsonVars, genVars, refVars, arbVars, readyVars, extVars, wsVars>>

\* asyncio.gather starts every _run_step task: each sets its step RUNNING and
\* parks at the await of its tool
StartGather ==
    /\ steps' = MarkAllRunning(steps, ParallelTasks(case))
    /\ inflight' = {ParallelTasks(case)[i] : i \in 1..Len(ParallelTasks(case))}
    /\ pc' = "gather"
    /\ UNCHANGED <<observed, emitted>>

\* lines 183-189 from the point where the parallel group is over
AfterGroup ==
    IF case.include_guidelines
    THEN YieldRunning("conflicts", "conflicts_running")
    ELSE YieldRunning("synthesize", "synthesize_running")

\* lines 156-172
AfterReason ==
    /\ pc = "reason_yielded"
    /\ IF GetStep(steps, "reason").status = FAILED
       THEN /\ SkipAndYield("reason")
            /\ UNCHANGED inflight
       ELSE /\ IF case.include_drug_check
               THEN YieldRunning("drugs", "drugs_running")
               ELSE IF case.include_guidelines
                    THEN YieldRunning("guidelines", "guidelines_running")
                    ELSE AfterGroup
            /\ UNCHANGED <<completed_at, to_yield, inflight>>
    /\ UNCHANGED <<case, slots, writes>>
    /\ UNCHANGED pipeline_out
    /\ UNCHANGED <<jsonVars, genVars, refVars, arbVars, readyVars, extVars, wsVars>>

\* lines 146-149 and 157-160: the next skipped step is yielded, or run returns
YieldSkipped ==
    /\ pc = "yield_skipped"
    /\ IF to_yield = <<>>
       THEN /\ completed_at' = TRUE
            /\ pc' = "done"
            /\ UNCHANGED <<to_yield, emitted>>
       ELSE /\ emitted' = Append(emitted, Emit(Head(to_yield), steps))
            /\ to_yield' = Tail(to_yield)
            /\ UNCHANGED <<completed_at, pc>>
    /\ UNCHANGED <<case, steps, slots, inflight, observed, writes>>
    /\ UNCHANGED pipeline_out
    /\ UNCHANGED <<jsonVars, genVars, refVars, arbVars, readyVars, extVars, wsVars>>

\* lines 166-172, resumed after the yield of line 165
AfterDrugsRunning ==
    /\ pc = "drugs_running"
    /\ IF case.include_guidelines
       THEN /\ YieldRunning("guidelines", "guidelines_running")
            /\ UNCHANGED inflight
       ELSE StartGather
    /\ UNCHANGED <<case, slots, completed_at, to_yield, writes>>
    /\ UNCHANGED pipeline_out
    /\ UNCHANGED <<jsonVars, genVars, refVars, arbVars, readyVars, extVars, wsVars>>

\* lines 169-172, resumed after the yield of line 168
AfterGuidelinesRunning ==
    /\ pc = "guidelines_running"
    /\ StartGather
    /\ UNCHANGED <<case, slots, completed_at, to_yield, writes>>
    /\ UNCHANGED pipeline_out
    /\ UNCHANGED <<jsonVars, genVars, refVars, arbVars, readyVars, extVars, wsVars>>

\* one _run_step task of the gather finishes (lines 228-237)
TaskFinish(id) ==
    /\ pc = "gather"
    /\ id \in inflight
    /\ \E out \in ToolOutcomes(id, slots) :
        /\ steps' = RunStepResult(MarkRunning(steps, id), id, out)
        /\ observed' = Observe(Observe(observed, id, RUNNING), id,
                               GetStep(steps', id).status)
        /\ slots' = WriteSlot(slots, id, out)
        /\ writes' = LogWrite(writes, id, out)
    /\ inflight' = inflight \ {id}
    /\ UNCHANGED <<case, completed_at, pc, to_yield, emitted>>
    /\ UNCHANGED pipeline_out
    /\ UNCHANGED <<jsonVars, genVars, refVars, arbVars, readyVars, extVars, wsVars>>

\* mutant: gather returns as soon as at most one task is still running
GatherCompleteAny(fl) == Cardinality(fl) <= 1

\* lines 172-175: await asyncio.gather(..., return_exceptions=True) returns
\* when every task has finished, by return or by exception
GatherComplete(fl) == fl = {}

\* lines 176-181: gather returned; the results are yielded in task order
GatherDone ==
    /\ pc = "gather"
    /\ GatherComplete(inflight)
    /\ emitted' = Append(emitted, Emit(Head(ParallelTasks(case)), steps))
    /\ to_yield' = Tail(ParallelTasks(case))
    /\ pc' = "yield_results"
    /\ UNCHANGED <<case, steps, slots, completed_at, inflight, observed, writes>>
    /\ UNCHANGED pipeline_out
    /\ UNCHANGED <<jsonVars, genVars, refVars, arbVars, readyVars, extVars, wsVars>>

\* lines 176-189: the next result is yielded, or the loop is over
YieldResult ==
    /\ pc = "yield_results"
    /\ IF to_yield = <<>>
       THEN /\ AfterGroup
            /\ UNCHANGED to_yield
       ELSE /\ emitted' = Append(emitted, Emit(Head(to_yield), steps))
            /\ to_yield' = Tail(to_yield)
            /\ UNCHANGED <<steps, observed, pc>>
    /\ UNCHANGED <<case, slots, completed_at, inflight, writes>>
    /\ UNCHANGED pipeline_out
    /\ UNCHANGED <<jsonVars, genVars, refVars, arbVars, readyVars, extVars, wsVars>>

\* line 186
RunConflicts ==
    /\ pc = "conflicts_running"
    /\ RunAndYield("conflicts", "conflicts_yielded")
    /\ UNCHANGED <<case, completed_at, inflight, to_yield>>
    /\ UNCHANGED pipeline_out
    /\ UNCHANGED <<jsonVars, genVars, refVars, arbVars, readyVars, extVars, wsVars>>

\* line 189
AfterConflicts ==
    /\ pc = "conflicts_yielded"
    /\ YieldRunning("synthesize", "synthesize_running")
    /\ UNCHANGED <<case, slots, completed_at, inflight, to_yield, writes>>
    /\ UNCHANGED pipeline_out
    /\ UNCHANGED <<jsonVars, genVars, refVars, arbVars, readyVars, extVars, wsVars>>

\* line 190
RunSynthesize ==
    /\ pc = "synthesize_running"
    /\ RunAndYield("synthesize", "synthesize_yielded")
    /\ UNCHANGED <<case, completed_at, inflight, to_yield>>
    /\ UNCHANGED pipeline_out
    /\ UNCHANGED <<jsonVars, genVars, refVars, arbVars, readyVars, extVars, wsVars>>

\* line 192
Finish ==
    /\ pc = "synthesize_yielded"
    /\ completed_at' = TRUE
    /\ pc' = "done"
    /\ UNCHANGED <<case, steps, slots, inflight, to_yield, emitted, observed,
                   writes>>
    /\ UNCHANGED pipeline_out
    /\ UNCHANGED <<jsonVars, genVars, refVars, arbVars, readyVars, extVars, wsVars>>

\* base.py 109-125: the async for loop is over and run_cds_pipeline returns
RunCdsPipelineReturns ==
    /\ pc = "done"
    /\ ~pipeline_out.returned
    /\ pipeline_out' = PipelineResult(steps, GetResult)
    /\ UNCHANGED <<case, steps, slots, completed_at, pc, inflight, to_yield,
                   emitted, observed, writes>>
    /\ UNCHANGED <<jsonVars, genVars, refVars, arbVars, readyVars, extVars, wsVars>>

\* ------------------------------------------------------------------------
\* Text: a Python str is a sequence of one-character strings
\* ------------------------------------------------------------------------

QUOTE  == "\""
BSLASH == "\\"

\* the characters str.strip() and the JSON scanner treat as white space
Whitespace == {" ", "\n", "\t", "\r"}

RECURSIVE RStrip(_)
RStrip(s) ==
    IF s # <<>> /\ s[Len(s)] \in Whitespace
    THEN RStrip(SubSeq(s, 1, Len(s) - 1)) ELSE s

RECURSIVE LStrip(_)
LStrip(s) ==
    IF s # <<>> /\ Head(s) \in Whitespace THEN LStrip(Tail(s)) ELSE s

Strip(s) == LStrip(RStrip(s))

StartsAt(s, pat, i) ==
    /\ i + Len(pat) - 1 <= Len(s)
    /\ SubSeq(s, i, i + Len(pat) - 1) = pat

\* str.find(pat, start) with 1-based positions: 0 when pat does not occur
Find(s, pat, from) ==
    IF \E i \in from..Len(s) : StartsAt(s, pat, i)
    THEN CHOOSE i \in from..Len(s) :
            /\ StartsAt(s, pat, i)
            /\ \A j \in from..(i - 1) : ~StartsAt(s, pat, j)
    ELSE 0

RECURSIVE Reverse(_)
Reverse(s) == IF s = <<>> THEN <<>> ELSE Append(Reverse(Tail(s)), Head(s))

\* ------------------------------------------------------------------------
\* JSON values, json.dumps and json.loads
\* ------------------------------------------------------------------------

JNull       == [t |-> "null",  n |-> 0, s |-> <<>>, keys |-> <<>>, kids |-> <<>>]
JTrue       == [t |-> "true",  n |-> 0, s |-> <<>>, keys |-> <<>>, kids |-> <<>>]
JFalse      == [t |-> "false", n |-> 0, s |-> <<>>, keys |-> <<>>, kids |-> <<>>]
JNum(k)     == [t |-> "num",   n |-> k, s |-> <<>>, keys |-> <<>>, kids |-> <<>>]
JStr(cs)    == [t |-> "str",   n |-> 0, s |-> cs,   keys |-> <<>>, kids |-> <<>>]
JArr(vs)    == [t |-> "arr",   n |-> 0, s |-> <<>>, keys |-> <<>>, kids |-> vs]
JObj(ks, vs) == [t |-> "obj",  n |-> 0, s |-> <<>>, keys |-> ks,   kids |-> vs]

DigitChars == <<"0", "1", "2", "3", "4", "5", "6", "7", "8", "9">>
Digits     == {DigitChars[i] : i \in 1..10}
DigitVal(c) == (CHOOSE i \in 1..10 : DigitChars[i] = c) - 1

RECURSIVE DumpsNat(_)
DumpsNat(k) ==
    IF k < 10 THEN <<DigitChars[k + 1]>>
    ELSE Append(DumpsNat(k \div 10), DigitChars[(k % 10) + 1])

DumpsInt(k) == IF k < 0 THEN <<"-">> \o DumpsNat(0 - k) ELSE DumpsNat(k)

\* the escapes json.dumps writes for the characters of the model's alphabet
RECURSIVE EscapeStr(_)
EscapeStr(cs) ==
    IF cs = <<>> THEN <<>>
    ELSE (CASE Head(cs) \in {QUOTE, BSLASH} -> <<BSLASH, Head(cs)>>
            [] Head(cs) = "\n"              -> <<BSLASH, "n">>
            [] Head(cs) = "\t"              -> <<BSLASH, "t">>
            [] Head(cs) = "\r"              -> <<BSLASH, "r">>
            [] OTHER                        -> <<Head(cs)>>)
         \o EscapeStr(Tail(cs))

DumpsStr(cs) == <<QUOTE>> \o EscapeStr(cs) \o <<QUOTE>>

\* json.dumps with the default separators ", " and ": "
RECURSIVE Dumps(_)
RECURSIVE DumpsItems(_, _)
Dumps(v) ==
    CASE v.t = "null"  -> <<"n", "u", "l", "l">>
      [] v.t = "true"  -> <<"t", "r", "u", "e">>
      [] v.t = "false" -> <<"f", "a", "l", "s", "e">>
      [] v.t = "num"   -> DumpsInt(v.n)
      [] v.t = "str"   -> DumpsStr(v.s)
      [] v.t = "arr"   -> <<"[">> \o DumpsItems(v, 1) \o <<"]">>
      [] OTHER         -> <<"{">> \o DumpsItems(v, 1) \o <<"}">>

DumpsItems(v, i) ==
    IF i > Len(v.kids) THEN <<>>
    ELSE (IF i > 1 THEN <<",", " ">> ELSE <<>>)
         \o (IF v.t = "obj" THEN DumpsStr(v.keys[i]) \o <<":", " ">> ELSE <<>>)
         \o Dumps(v.kids[i])
         \o DumpsItems(v, i + 1)

ParseFail(i)    == [ok |-> FALSE, val |-> JNull, pos |-> i]
ParseDone(v, i) == [ok |-> TRUE,  val |-> v,     pos |-> i]

RECURSIVE SkipWs(_, _)
SkipWs(s, i) ==
    IF i <= Len(s) /\ s[i] \in Whitespace THEN SkipWs(s, i + 1) ELSE i

\* a string literal from the character after its opening quote
RECURSIVE ScanString(_, _, _)
ScanString(s, i, acc) ==
    IF i > Len(s) THEN ParseFail(i)
    ELSE IF s[i] = QUOTE THEN ParseDone(JStr(acc), i + 1)
    ELSE IF s[i] = BSLASH
         THEN IF i + 1 > Len(s) THEN ParseFail(i)
              ELSE IF s[i + 1] \in {QUOTE, BSLASH, "/"}
                   THEN ScanString(s, i + 2, Append(acc, s[i + 1]))
              ELSE IF s[i + 1] = "n" THEN ScanString(s, i + 2, Append(acc, "\n"))
              ELSE IF s[i + 1] = "t" THEN ScanString(s, i + 2, Append(acc, "\t"))
              ELSE IF s[i + 1] = "r" THEN ScanString(s, i + 2, Append(acc, "\r"))
              ELSE ParseFail(i)
    ELSE IF s[i] \in {"\n", "\t", "\r"} THEN ParseFail(i)
    ELSE ScanString(s, i + 1, Append(acc, s[i]))

RECURSIVE ScanDigits(_, _, _)
ScanDigits(s, i, acc) ==
    IF i <= Len(s) /\ s[i] \in Digits
    THEN ScanDigits(s, i + 1, acc * 10 + DigitVal(s[i]))
    ELSE [val |-> acc, pos |-> i]

\* an integer literal: -?(0|[1-9][0-9]*)
ParseNumber(s, i) ==
    LET neg == s[i] = "-"
        j   == IF neg THEN i + 1 ELSE i
        r   == ScanDigits(s, j, 0)
    IN  IF j > Len(s) \/ s[j] \notin Digits THEN ParseFail(i)
        ELSE IF s[j] = "0" THEN ParseDone(JNum(0), j + 1)
        ELSE ParseDone(JNum(IF neg THEN 0 - r.val ELSE r.val), r.pos)

\* dict assignment: a repeated key keeps its place and takes the new value
PutKey(ks, vs, k, v) ==
    IF \E i \in 1..Len(ks) : ks[i] = k
    THEN [keys |-> ks,
          kids |-> [vs EXCEPT ![CHOOSE i \in 1..Len(ks) : ks[i] = k] = v]]
    ELSE [keys |-> Append(ks, k), kids |-> Append(vs, v)]

RECURSIVE ParseValue(_, _)
RECURSIVE ParseElements(_, _, _)
RECURSIVE ParseMembers(_, _, _, _)
ParseValue(s, i) ==
    IF i > Len(s) THEN ParseFail(i)
    ELSE CASE s[i] = QUOTE -> ScanString(s, i + 1, <<>>)
           [] s[i] = "[" ->
                LET j == SkipWs(s, i + 1)
                IN  IF j <= Len(s) /\ s[j] = "]"
                    THEN ParseDone(JArr(<<>>), j + 1)
                    ELSE ParseElements(s, j, <<>>)
           [] s[i] = "{" ->
                LET j == SkipWs(s, i + 1)
                IN  IF j <= Len(s) /\ s[j] = "}"
                    THEN ParseDone(JObj(<<>>, <<>>), j + 1)
                    ELSE ParseMembers(s, j, <<>>, <<>>)
           [] s[i] = "-" \/ s[i] \in Digits -> ParseNumber(s, i)
           [] StartsAt(s, <<"t", "r", "u", "e">>, i) -> ParseDone(JTrue, i + 4)
           [] StartsAt(s, <<"f", "a", "l", "s", "e">>, i) -> ParseDone(JFalse, i + 5)
           [] StartsAt(s, <<"n", "u", "l", "l">>, i) -> ParseDone(JNull, i + 4)
           [] OTHER -> ParseFail(i)

ParseElements(s, i, acc) ==
    LET r == ParseValue(s, i)
        j == SkipWs(s, r.pos)
    IN  IF ~r.ok THEN r
        ELSE IF j > Len(s) THEN ParseFail(j)
        ELSE IF s[j] = "]" THEN ParseDone(JArr(Append(acc, r.val)), j + 1)
        ELSE IF s[j] = ","
             THEN ParseElements(s, SkipWs(s, j + 1), Append(acc, r.val))
        ELSE ParseFail(j)

ParseMembers(s, i, ks, vs) ==
    LET k  == ScanString(s, i + 1, <<>>)
        c  == SkipWs(s, k.pos)
        r  == ParseValue(s, SkipWs(s, c + 1))
        nk == PutKey(ks, vs, k.val.s, r.val)
        j  == SkipWs(s, r.pos)
    IN  IF i > Len(s) \/ s[i] # QUOTE THEN ParseFail(i)
        ELSE IF ~k.ok THEN k
        ELSE IF c > Len(s) \/ s[c] # ":" THEN ParseFail(c)
        ELSE IF ~r.ok THEN r
        ELSE IF j > Len(s) THEN ParseFail(j)
        ELSE IF s[j] = "}" THEN ParseDone(JObj(nk.keys, nk.kids), j + 1)
        ELSE IF s[j] = ","
             THEN ParseMembers(s, SkipWs(s, j + 1), nk.keys, nk.kids)
        ELSE ParseFail(j)

\* json.loads: [ok, val]; not ok stands for JSONDecodeError
Loads(s) ==
    LET r == ParseValue(s, SkipWs(s, 1))
    IN  IF r.ok /\ SkipWs(s, r.pos) > Len(s)
        THEN [ok |-> TRUE, val |-> r.val]
        ELSE [ok |-> FALSE, val |-> JNull]

\* ------------------------------------------------------------------------
\* MedGemmaService._repair_truncated_json and _extract_json
\* ------------------------------------------------------------------------

None     == [some |-> FALSE, s |-> <<>>]
Some(cs) == [some |-> TRUE,  s |-> cs]

\* lines 344-353: the first scan; its value is in_string at the end
RECURSIVE QuoteScan(_, _, _)
QuoteScan(s, i, in_string) ==
    IF i > Len(s) THEN in_string
    ELSE IF s[i] = BSLASH /\ in_string THEN QuoteScan(s, i + 2, in_string)
    ELSE IF s[i] = QUOTE THEN QuoteScan(s, i + 1, ~in_string)
    ELSE QuoteScan(s, i + 1, in_string)

\* mutant: the scan counts brackets inside string literals too
RECURSIVE BracketScanNoQuotes(_, _, _, _)
BracketScanNoQuotes(s, i, in_string, stack) ==
    IF i > Len(s) THEN stack
    ELSE IF s[i] \in {"{", "["}
         THEN BracketScanNoQuotes(s, i + 1, in_string,
                  Append(stack, IF s[i] = "{" THEN "}" ELSE "]"))
    ELSE IF s[i] \in {"}", "]"}
         THEN BracketScanNoQuotes(s, i + 1, in_string,
                  IF stack # <<>> THEN SubSeq(stack, 1, Len(stack) - 1) ELSE stack)
    ELSE BracketScanNoQuotes(s, i + 1, in_string, stack)

\* lines 358-374: the second scan; its value is the stack of closers
RECURSIVE BracketScan(_, _, _, _)
BracketScan(s, i, in_string, stack) ==
    IF i > Len(s) THEN stack
    ELSE IF s[i] = BSLASH /\ in_string THEN BracketScan(s, i + 2, in_string, stack)
    ELSE IF s[i] = QUOTE THEN BracketScan(s, i + 1, ~in_string, stack)
    ELSE IF ~in_string /\ s[i] \in {"{", "["}
         THEN BracketScan(s, i + 1, in_string,
                  Append(stack, IF s[i] = "{" THEN "}" ELSE "]"))
    ELSE IF ~in_string /\ s[i] \in {"}", "]"}
         THEN BracketScan(s, i + 1, in_string,
                  IF stack # <<>> THEN SubSeq(stack, 1, Len(stack) - 1) ELSE stack)
    ELSE BracketScan(s, i + 1, in_string, stack)

\* mutant: the closers are appended in the order the openers were met
ClosersInOpeningOrder(stack) == stack

\* lines 381-383: the closers in the order they are appended
Closers(stack) == Reverse(stack)

\* lines 376-379
StripTrailingComma(s) ==
    LET r == RStrip(s)
    IN  IF r # <<>> /\ r[Len(r)] = "," THEN SubSeq(r, 1, Len(r) - 1) ELSE r

RepairTruncatedJson(text) ==
    IF text = <<>> \/ Strip(text) = <<>> THEN None
    ELSE LET s0    == RStrip(text)
             s1    == IF QuoteScan(s0, 1, FALSE) THEN Append(s0, QUOTE) ELSE s0
             stack == BracketScan(s1, 1, FALSE, <<>>)
         IN  Some(StripTrailingComma(s1) \o Closers(stack))

\* the grave accent U+0060, which a TLA+ string cannot hold
BACKTICK  == "BACKTICK"
Fence     == <<BACKTICK, BACKTICK, BACKTICK>>
FenceJson == Fence \o <<"j", "s", "o", "n">>

\* lines 320-327: the inner loop from position j; 0 when it ends without return
RECURSIVE MatchFrom(_, _, _)
MatchFrom(text, j, depth) ==
    IF j > Len(text) THEN 0
    ELSE LET d == IF text[j] \in {"{", "["} THEN depth + 1
                  ELSE IF text[j] \in {"}", "]"} THEN depth - 1
                  ELSE depth
         IN  IF d = 0 THEN j ELSE MatchFrom(text, j + 1, d)

\* lines 317-328: the outer loop from position i, and the final return
RECURSIVE BracketSpan(_, _)
BracketSpan(text, i) ==
    IF i > Len(text) THEN Strip(text)
    ELSE IF text[i] \in {"{", "["} /\ MatchFrom(text, i, 0) # 0
         THEN SubSeq(text, i, MatchFrom(text, i, 0))
    ELSE BracketSpan(text, i + 1)

\* the text between an opening fence ending before start and the next fence
FencedBlock(text, start) ==
    LET end == Find(text, Fence, start)
    IN  IF end = 0 THEN Strip(SubSeq(text, start, Len(text)))
        ELSE Strip(SubSeq(text, start, end - 1))

\* mutant: the first fence is taken, whatever follows it
ExtractJsonFirstFence(text) ==
    IF Find(text, Fence, 1) # 0
    THEN FencedBlock(text, Find(text, Fence, 1) + 3)
    ELSE BracketSpan(text, 1)

ExtractJson(text) ==
    IF Find(text, FenceJson, 1) # 0
    THEN FencedBlock(text, Find(text, FenceJson, 1) + 7)
    ELSE IF Find(text, Fence, 1) # 0
    THEN FencedBlock(text, Find(text, Fence, 1) + 3)
    ELSE BracketSpan(text, 1)

\* ------------------------------------------------------------------------
\* The repair round trip: serialize a value, cut the text, repair, parse
\* ------------------------------------------------------------------------

\* nesting depth and container width of the sampled JSON values
MaxDepth == 2
MaxKids  == 2

\* the atoms a sampled value is filled with, besides the number 1
FillAtoms ==
    { JStr(<<"b">>), JStr(<<"a", QUOTE>>), JStr(<<BSLASH>>), JStr(<<"[", ",">>),
      JStr(<<"}", " ">>), JNum(12), JTrue, JNull }

SampleKeys == << <<"a">>, <<"c">>, <<"[", QUOTE>>, <<"e", BSLASH>> >>

\* the k-th sibling leaf of a container: 1, fill, 1, fill, ...
LeafAt(fill, k) == IF k % 2 = 1 THEN JNum(1) ELSE fill

LeafRun(fill, from, n) == [k \in 1..n |-> LeafAt(fill, from + k - 1)]

Container(kind, kids) ==
    IF kind = "arr" THEN JArr(kids)
    ELSE JObj(SubSeq(SampleKeys, 1, Len(kids)), kids)

\* containers nested at most d deep: a run of leaves, or leaves around one
\* nested container
RECURSIVE Containers(_, _)
Containers(fill, d) ==
    LET flat == {Container(kind, LeafRun(fill, 1, n)) :
                    kind \in {"arr", "obj"}, n \in 0..MaxKids}
    IN  IF d <= 1 THEN flat
        ELSE flat \cup
             { Container(kind,
                   LeafRun(fill, 1, shape[1]) \o <<inner>>
                   \o LeafRun(fill, shape[1] + 2, shape[2])) :
                 kind \in {"arr", "obj"},
                 inner \in Containers(fill, d - 1),
                 shape \in {sh \in (0..(MaxKids - 1)) \X (0..1) :
                               sh[1] + 1 + sh[2] <= MaxKids} }

\* {"a": "b", "c": [1, 2]}
ScenarioBValue ==
    JObj(<< <<"a">>, <<"c">> >>, <<JStr(<<"b">>), JArr(<<JNum(1), JNum(2)>>)>>)

JsonValues ==
    FillAtoms \cup {JNum(1), ScenarioBValue}
    \cup UNION {Containers(fill, MaxDepth) : fill \in FillAtoms}

\* what may follow the cut: nothing, or the separator of the next item
Trails == {<<>>, <<",">>, <<",", " ">>}

\* the last d characters of the text are closers that follow a complete value
EndsWithClosers(t, d) ==
    /\ d >= 1
    /\ d < Len(t)
    /\ \A k \in (Len(t) - d + 1)..Len(t) : t[k] \in {"}", "]"}
    /\ t[Len(t) - d] \notin {"{", "["}

JsonInit ==
    /\ x \in JsonValues
    /\ doc = <<>>
    /\ cut = [closers |-> 0, trail |-> <<>>]
    /\ repaired = None
    /\ parsed = [ok |-> FALSE, val |-> JNull]
    /\ json_pc = "value"

JsonIdle ==
    /\ x = JNull
    /\ doc = <<>>
    /\ cut = [closers |-> 0, trail |-> <<>>]
    /\ repaired = None
    /\ parsed = [ok |-> FALSE, val |-> JNull]
    /\ json_pc = "idle"

\* json.dumps(x)
Serialize ==
    /\ json_pc = "value"
    /\ doc' = Dumps(x)
    /\ json_pc' = "doc"
    /\ UNCHANGED <<x, cut, repaired, parsed>>
    /\ UNCHANGED <<orchVars, genVars, refVars, arbVars, readyVars, extVars, wsVars>>

\* the endpoint stops inside the document: the last d closers are missing
Truncate(d, trail) ==
    /\ json_pc = "doc"
    /\ cut.closers = 0
    /\ EndsWithClosers(doc, d)
    /\ doc' = SubSeq(doc, 1, Len(doc) - d) \o trail
    /\ cut' = [closers |-> d, trail |-> trail]
    /\ UNCHANGED <<x, repaired, parsed, json_pc>>
    /\ UNCHANGED <<orchVars, genVars, refVars, arbVars, readyVars, extVars, wsVars>>

Repair ==
    /\ json_pc = "doc"
    /\ repaired' = RepairTruncatedJson(doc)
    /\ json_pc' = "repaired"
    /\ UNCHANGED <<x, doc, cut, parsed>>
    /\ UNCHANGED <<orchVars, genVars, refVars, arbVars, readyVars, extVars, wsVars>>

\* json.loads(candidate) for the repaired candidate
Parse ==
    /\ json_pc = "repaired"
    /\ repaired.some
    /\ parsed' = Loads(repaired.s)
    /\ json_pc' = "parsed"
    /\ UNCHANGED <<x, doc, cut, repaired>>
    /\ UNCHANGED <<orchVars, genVars, refVars, arbVars, readyVars, extVars, wsVars>>

\* ------------------------------------------------------------------------
\* MedGemmaService.generate_structured over _generate_api (API mode)
\* ------------------------------------------------------------------------

MAX_API_RETRIES  == 3
RETRY_BASE_DELAY == 5

\* line 270-271: the keywords that make an error message transient
TransientKeywords ==
    {"503", "502", "429", "service unavailable", "overloaded", "connection",
     "timeout", "timed out", "temporarily"}

\* an error message is the set of the words str(e).lower() contains
ErrorMessages ==
    { {"503"}, {"invalid"}, {"system", "role"}, {"system", "overloaded"} }

\* mutant: every failure is retried
IsTransientAlways(msg) == msg = msg

\* line 268-272
IsTransient(msg) == msg \cap TransientKeywords # {}

\* line 250
IsSystemRejection(sp, msg) == sp /\ "system" \in msg

\* line 274
RetryDelay(attempt) == RETRY_BASE_DELAY * (2 ^ attempt)

\* mutant: the last attempt is followed by a delay and one more request
MayRetryOnceMore(attempt) == attempt < MAX_API_RETRIES

\* line 273: an attempt that may be followed by another one
MayRetry(attempt) == attempt < MAX_API_RETRIES - 1

\* the texts the endpoint may answer with
RawValid     == <<"{", QUOTE, "a", QUOTE, ":", " ", "1", "}">>
RawTruncated == <<"{", QUOTE, "a", QUOTE, ":", " ", "[", "1", ",", " ", "2">>
RawProse     == <<"s", "o", "r", "r", "y">>
RawNoField   == <<"[", "1", "]">>
RawSamples   == {RawValid, RawTruncated, RawProse, RawNoField}

Success(t) == [ok |-> TRUE,  content |-> t,    msg |-> {}]
Failure(m) == [ok |-> FALSE, content |-> <<>>, msg |-> m]

EndpointResponses ==
    {Success(t) : t \in RawSamples} \cup {Failure(m) : m \in ErrorMessages}

\* response_model.model_validate for a schema with the required field "a"
Validates(v) == v.t = "obj" /\ \E i \in 1..Len(v.keys) : v.keys[i] = <<"a">>

\* lines 181-186: the prompt of the generation calls, built once
StructuredPrompt == <<"prompt", "schema_instructions">>

\* line 190: the prompt handed to generate in round attempt
RoundPrompt(attempt) == StructuredPrompt

\* lines 229-232
Messages(sp, prompt) ==
    (IF sp THEN <<[role |-> "system", content |-> <<"system_prompt">>]>> ELSE <<>>)
    \o <<[role |-> "user", content |-> prompt]>>

\* lines 252-254
FallbackMessages(prompt) ==
    <<[role |-> "user", content |-> <<"system_prompt">> \o prompt]>>

NoParseError == [kind |-> "none", candidate |-> 0, round |-> 0]

\* lines 197-201: what the try block makes of a parsed candidate
Verdict(r) ==
    IF ~r.ok THEN [kind |-> "JSONDecodeError", value |-> JNull]
    ELSE IF Validates(r.val) THEN [kind |-> "ok", value |-> r.val]
    ELSE [kind |-> "ValidationError", value |-> JNull]

\* lines 197-201: json.loads(candidate), then model_validate
TryCandidate(c) == Verdict(Loads(c))

\* line 194: the text as extracted, then its repair (None included)
WithRepair(json_str) == <<Some(json_str), RepairTruncatedJson(json_str)>>

\* lines 191-194: the candidates of a round
Candidates(raw) == WithRepair(ExtractJson(raw))

\* lines 194-201: the candidate loop; a None candidate is skipped
TryAll(cs) ==
    [k \in 1..2 |->
        IF cs[k].some THEN TryCandidate(cs[k].s)
        ELSE [kind |-> "None", value |-> JNull]]

\* mutant: the repaired candidate is preferred to the text as extracted
AcceptedRepairedFirst(res) ==
    IF res[2].kind = "ok" THEN 2
    ELSE IF res[1].kind = "ok" THEN 1
    ELSE 0

\* lines 194-201: the first candidate that parses and validates, 0 when none
Accepted(res) ==
    IF res[1].kind = "ok" THEN 1
    ELSE IF res[2].kind = "ok" THEN 2
    ELSE 0

\* lines 200-201: the candidate whose error last_error holds after the loop
FailedCandidate(res) == IF res[2].kind # "None" THEN 2 ELSE 1

\* lines 194-201: the candidates handed to json.loads, in order: the loop
\* stops at the one it returns and skips a None candidate
Tried(res) ==
    IF Accepted(res) # 0 THEN [k \in 1..Accepted(res) |-> k]
    ELSE IF res[2].kind = "None" THEN <<1>>
    ELSE <<1, 2>>

\* lines 194-206: the value returned, or the error the round ends with
RoundResult(res) ==
    IF Accepted(res) # 0
    THEN [accepted |-> Accepted(res), value |-> res[Accepted(res)].value,
          kind |-> "ok", candidate |-> Accepted(res), tried |-> Tried(res)]
    ELSE [accepted |-> 0, value |-> JNull, tried |-> Tried(res),
          kind |-> res[FailedCandidate(res)].kind,
          candidate |-> FailedCandidate(res)]

\* lines 191-206 for each text the endpoint may answer with
RoundOutcome == [raw \in RawSamples |-> RoundResult(TryAll(Candidates(raw)))]

\* mutant: range(3)
StructuredRoundsThree == 2 + 1

\* line 189: range(2)
StructuredRounds == 2

GenInit ==
    /\ system_prompt \in BOOLEAN
    /\ gs_pc = "call"
    /\ gs_attempt = 0
    /\ gs_last_error = NoParseError
    /\ gs_result = JNull
    /\ calls = <<>>
    /\ raws = <<>>
    /\ tries = <<>>
    /\ api_pc = "idle"
    /\ api_attempt = 0
    /\ last_error = {}
    /\ requests = <<>>
    /\ delays = <<>>

GenIdle ==
    /\ system_prompt = FALSE
    /\ gs_pc = "idle"
    /\ gs_attempt = 0
    /\ gs_last_error = NoParseError
    /\ gs_result = JNull
    /\ calls = <<>>
    /\ raws = <<>>
    /\ tries = <<>>
    /\ api_pc = "idle"
    /\ api_attempt = 0
    /\ last_error = {}
    /\ requests = <<>>
    /\ delays = <<>>

\* line 190 into lines 227-236: generate is called and reaches its first request
GenerateCall ==
    /\ gs_pc = "call"
    /\ calls' = Append(calls, RoundPrompt(gs_attempt))
    /\ gs_pc' = "generating"
    /\ api_pc' = "request"
    /\ api_attempt' = 0
    /\ last_error' = {}
    /\ UNCHANGED <<system_prompt, gs_attempt, gs_last_error, gs_result, raws, tries,
                   requests, delays>>
    /\ UNCHANGED <<orchVars, jsonVars, refVars, arbVars, readyVars, extVars, wsVars>>

\* lines 191-211: generate returned raw; the round's candidates are tried
StructuredReturn(raw) ==
    LET out == RoundOutcome[raw] IN
    /\ api_pc' = "returned"
    /\ raws' = Append(raws, raw)
    /\ tries' = Append(tries, [tried |-> out.tried, accepted |-> out.accepted])
    /\ IF out.accepted # 0
       THEN /\ gs_result' = out.value
            /\ gs_pc' = "returned"
            /\ UNCHANGED <<gs_attempt, gs_last_error>>
       ELSE /\ gs_last_error' = [kind |-> out.kind, candidate |-> out.candidate,
                                 round |-> gs_attempt]
            /\ gs_result' = gs_result
            /\ IF gs_attempt + 1 < StructuredRounds
               THEN gs_attempt' = gs_attempt + 1 /\ gs_pc' = "call"
               ELSE gs_attempt' = gs_attempt /\ gs_pc' = "raised"

\* mutant: an error of generate is treated like a round that failed to parse
GenerateRaisedNextRound(attempt) ==
    IF attempt + 1 < StructuredRounds
    THEN [pc |-> "call", attempt |-> attempt + 1]
    ELSE [pc |-> "propagated", attempt |-> attempt]

\* line 190: the await of generate is inside no try statement, so its error
\* leaves generate_structured from the round it was raised in
GenerateRaised(attempt) == [pc |-> "propagated", attempt |-> attempt]

\* lines 267-286: the failure is classified; a retry sleeps, anything else
\* raises last_error, which generate_structured lets through
Classify(msg) ==
    IF IsTransient(msg) /\ MayRetry(api_attempt)
    THEN /\ delays' = Append(delays, [call |-> Len(calls),
                                      seconds |-> RetryDelay(api_attempt)])
         /\ api_pc' = "sleep"
         /\ UNCHANGED <<gs_pc, gs_attempt, gs_last_error, gs_result, raws, tries>>
    ELSE /\ api_pc' = "raised"
         /\ gs_pc' = GenerateRaised(gs_attempt).pc
         /\ gs_attempt' = GenerateRaised(gs_attempt).attempt
         /\ UNCHANGED <<delays, gs_last_error, gs_result, raws, tries>>

\* lines 237-250: the request of this attempt is answered
PrimaryRequest(resp) ==
    /\ api_pc = "request"
    /\ requests' = Append(requests,
          [call |-> Len(calls), kind |-> "primary", attempt |-> api_attempt,
           slept |-> Len(delays),
           messages |-> Messages(system_prompt, calls[Len(calls)]), resp |-> resp])
    /\ IF resp.ok
       THEN /\ StructuredReturn(resp.content)
            /\ UNCHANGED <<last_error, delays>>
       ELSE /\ last_error' = resp.msg
            /\ IF IsSystemRejection(system_prompt, resp.msg)
               THEN /\ api_pc' = "fallback"
                    /\ UNCHANGED <<delays, gs_pc, gs_attempt, gs_last_error,
                                   gs_result, raws, tries>>
               ELSE Classify(resp.msg)
    /\ UNCHANGED <<system_prompt, calls, api_attempt>>
    /\ UNCHANGED <<orchVars, jsonVars, refVars, arbVars, readyVars, extVars, wsVars>>

\* lines 255-265: the fallback request is answered
FallbackRequest(resp) ==
    /\ api_pc = "fallback"
    /\ requests' = Append(requests,
          [call |-> Len(calls), kind |-> "fallback", attempt |-> api_attempt,
           slept |-> Len(delays),
           messages |-> FallbackMessages(calls[Len(calls)]), resp |-> resp])
    /\ IF resp.ok
       THEN /\ StructuredReturn(resp.content)
            /\ UNCHANGED <<last_error, delays>>
       ELSE /\ last_error' = resp.msg
            /\ Classify(resp.msg)
    /\ UNCHANGED <<system_prompt, calls, api_attempt>>
    /\ UNCHANGED <<orchVars, jsonVars, refVars, arbVars, readyVars, extVars, wsVars>>

\* lines 279-280: the sleep is over, the loop goes to its next attempt
Wake ==
    /\ api_pc = "sleep"
    /\ api_attempt' = api_attempt + 1
    /\ api_pc' = "request"
    /\ UNCHANGED <<system_prompt, gs_pc, gs_attempt, gs_last_error, gs_result,
                   calls, raws, tries, last_error, requests, delays>>
    /\ UNCHANGED <<orchVars, jsonVars, refVars, arbVars, readyVars, extVars, wsVars>>

\* ------------------------------------------------------------------------
\* IterativeRefiner.refine (tracks/iterative/refiner.py)
\* ------------------------------------------------------------------------

\* the largest max_iterations a sampled configuration has
MaxIterations == 3

\* convergence_threshold of the configurations, in hundredths (0.05, 0.03)
ConvergenceThresholds == {5, 3}

\* str.lower() on the letters of the sampled labels
Lower(c) ==
    CASE c = "F" -> "f"
      [] c = "M" -> "m"
      [] OTHER   -> c

LowerStr(s) == [i \in 1..Len(s) |-> Lower(s[i])]

\* dx.diagnosis.lower().strip()
NormalizeLabel(s) == Strip(LowerStr(s))

\* differential_diagnosis[:5]
TopFive(art) == SubSeq(art, 1, IF Len(art) < 5 THEN Len(art) ELSE 5)

LabelSet(art) == {NormalizeLabel(TopFive(art)[i]) : i \in 1..Len(TopFive(art))}

\* mutant: the threshold is taken for the similarity to reach, not 1 - it
HasConvergedInverted(prev, curr, threshold) ==
    LET prev_names == LabelSet(prev)
        curr_names == LabelSet(curr)
    IN  IF prev_names = {} \/ curr_names = {} THEN FALSE
        ELSE Cardinality(prev_names \cap curr_names) * 100
                <= threshold * Cardinality(prev_names \cup curr_names)

\* mutant: the labels are compared as written, neither lower-cased nor trimmed
HasConvergedAsWritten(prev, curr, threshold) ==
    LET prev_names == {TopFive(prev)[i] : i \in 1..Len(TopFive(prev))}
        curr_names == {TopFive(curr)[i] : i \in 1..Len(TopFive(curr))}
        overlap    == Cardinality(prev_names \cap curr_names)
        union      == Cardinality(prev_names \cup curr_names)
    IN  IF prev_names = {} \/ curr_names = {} THEN FALSE
        ELSE overlap * 100 >= (100 - threshold) * union

\* _has_converged, with jaccard >= 1 - threshold taken in hundredths
HasConverged(prev, curr, threshold) ==
    LET prev_names == LabelSet(prev)
        curr_names == LabelSet(curr)
        overlap    == Cardinality(prev_names \cap curr_names)
        union      == Cardinality(prev_names \cup curr_names)
    IN  IF prev_names = {} \/ curr_names = {} THEN FALSE
        ELSE overlap * 100 >= (100 - threshold) * union

\* a reasoning artifact is the list of its candidate labels, by rank
LFlu  == <<"f", "l", "u">>
LFluU == <<"F", "l", "u", " ">>
LMi   == <<"m", "i">>
LPe   == <<"p", "e">>
LCo   == <<"c", "o">>
LAs   == <<"a", "s">>
LUt   == <<"u", "t">>

\* the last two differ in their sixth candidate only
ArtifactSamples ==
    { <<>>, <<LFlu, LMi>>, <<LMi, LFluU>>, <<LFlu, LPe>>, <<LPe>>,
      <<LFlu, LMi, LPe, LCo, LAs, LUt>>, <<LFlu, LMi, LPe, LCo, LAs, LFluU>> }

\* mutant: range(1, max_iterations + 2)
InLoopOneMore(it, max) == it <= max + 1

\* line 101: range(1, max_iterations + 1) still has this iteration
InLoop(it, max) == it <= max

RefInit ==
    /\ max_iterations \in 0..MaxIterations
    /\ convergence_threshold \in ConvergenceThresholds
    /\ initial_reasoning \in ArtifactSamples
    /\ history = <<initial_reasoning>>
    /\ current = initial_reasoning
    /\ iteration = 1
    /\ critiques = 0
    /\ ref_pc = "loop"
    /\ returned = <<>>
    /\ outcomes = <<>>

RefIdle ==
    /\ max_iterations = 0
    /\ convergence_threshold = 5
    /\ history = <<>>
    /\ current = <<>>
    /\ iteration = 0
    /\ critiques = 0
    /\ ref_pc = "idle"
    /\ returned = <<>>
    /\ initial_reasoning = <<>>
    /\ outcomes = <<>>

\* lines 101-126 and 166-167: the loop head; the critique call is made or the
\* loop is over
LoopHead ==
    /\ ref_pc = "loop"
    /\ IF InLoop(iteration, max_iterations)
       THEN /\ ref_pc' = "critique"
            /\ critiques' = critiques + 1
            /\ UNCHANGED returned
       ELSE /\ ref_pc' = "returned"
            /\ returned' = current
            /\ UNCHANGED critiques
    /\ UNCHANGED <<max_iterations, convergence_threshold, history, current,
                   iteration, initial_reasoning, outcomes>>
    /\ UNCHANGED <<orchVars, jsonVars, genVars, arbVars, readyVars, extVars, wsVars>>

\* mutant: the revision is appended to the history only when the loop goes on
CritiqueReturnsAppendsLate(revised) ==
    /\ ref_pc = "critique"
    /\ outcomes' = Append(outcomes, "revised")
    /\ IF HasConverged(current, revised, convergence_threshold)
       THEN /\ ref_pc' = "returned"
            /\ returned' = revised
            /\ UNCHANGED <<current, iteration, history>>
       ELSE /\ current' = revised
            /\ history' = Append(history, revised)
            /\ iteration' = iteration + 1
            /\ ref_pc' = "loop"
            /\ UNCHANGED returned
    /\ UNCHANGED <<max_iterations, convergence_threshold, critiques,
                   initial_reasoning>>
    /\ UNCHANGED <<orchVars, jsonVars, genVars, arbVars, readyVars, extVars, wsVars>>

\* mutant: a failed critique call is logged and the loop goes on
CritiqueFailsContinues ==
    /\ ref_pc = "critique"
    /\ ref_pc' = "loop"
    /\ iteration' = iteration + 1
    /\ outcomes' = Append(outcomes, "raised")
    /\ UNCHANGED <<max_iterations, convergence_threshold, history, current,
                   returned, critiques, initial_reasoning>>
    /\ UNCHANGED <<orchVars, jsonVars, genVars, arbVars, readyVars, extVars, wsVars>>

\* lines 135-164: generate_structured returned a revision
CritiqueReturns(revised) ==
    /\ ref_pc = "critique"
    /\ history' = Append(history, revised)
    /\ outcomes' = Append(outcomes, "revised")
    /\ IF HasConverged(current, revised, convergence_threshold)
       THEN /\ ref_pc' = "returned"
            /\ returned' = revised
            /\ UNCHANGED <<current, iteration>>
       ELSE /\ current' = revised
            /\ iteration' = iteration + 1
            /\ ref_pc' = "loop"
            /\ UNCHANGED returned
    /\ UNCHANGED <<max_iterations, convergence_threshold, critiques,
                   initial_reasoning>>
    /\ UNCHANGED <<orchVars, jsonVars, genVars, arbVars, readyVars, extVars, wsVars>>

\* lines 127-133: generate_structured raised
CritiqueFails ==
    /\ ref_pc = "critique"
    /\ ref_pc' = "returned"
    /\ returned' = current
    /\ outcomes' = Append(outcomes, "raised")
    /\ UNCHANGED <<max_iterations, convergence_threshold, history, current,
                   iteration, critiques, initial_reasoning>>
    /\ UNCHANGED <<orchVars, jsonVars, genVars, arbVars, readyVars, extVars, wsVars>>


\* ------------------------------------------------------------------------
\* Arbitrated track: run_case_arbitrated (tracks/arbitrated/run_arbitrated.py),
\* run_specialists_parallel (specialists.py) and Arbiter (arbiter.py)
\* ------------------------------------------------------------------------

\* config.specialists of D0_3spec_1round and D2_3spec_2rounds, in their order
Specialists == <<"im", "cardio", "id">>

SpecialistIds == {Specialists[i] : i \in 1..Len(Specialists)}

\* config.max_rounds of the entries of CONFIGS
RoundCaps == {1, 2}

\* consensus: Optional[ClinicalReasoningResult]
NoConsensus == [some |-> FALSE, art |-> <<>>]

Consensus(art) == [some |-> TRUE, art |-> art]

\* what a specialist's reason() may return for the case
SpecialistAnswers(sid) ==
    CASE sid = "im"     -> { <<LFlu, LMi>> }
      [] sid = "cardio" -> { <<LPe, LCo>>, <<LMi, LFluU, LPe>> }
      [] OTHER          -> { <<LAs, LUt>> }

\* what Arbiter.merge may return; the last has a fourth candidate
MergeAnswers == { <<>>, <<LFluU, LMi, LPe>>, <<LFlu, LPe, LAs, LMi>> }

\* state.clinical_reasoning of the baseline pipeline run
BaselineReasoning == Consensus(<<LFlu>>)

NoReport == [source |-> "none", reasoning |-> NoConsensus]

\* baseline_report, synthesised by the baseline pipeline
BaselineReport == [source |-> "baseline", reasoning |-> BaselineReasoning]

\* SynthesisTool.run(clinical_reasoning=...): None is formatted as
\* "Clinical reasoning not available" and the report is generated all the same
SynthesisReport(clinical_reasoning) ==
    [source |-> "synthesis", reasoning |-> clinical_reasoning]

\* differential_diagnosis[:3]
TopThree(art) == SubSeq(art, 1, IF Len(art) < 3 THEN Len(art) ELSE 3)

\* {dx.diagnosis.lower().strip() for dx in ....differential_diagnosis[:3]}
TopThreeSet(art) == {NormalizeLabel(TopThree(art)[i]) : i \in 1..Len(TopThree(art))}

\* overlap = len(consensus_top & spec_top)
Overlap(consensus_art, result) ==
    Cardinality(TopThreeSet(consensus_art) \cap TopThreeSet(result))

\* mutant: only a full top-3 match counts as agreement
AlignedAtLeastThree(consensus_art, result) == Overlap(consensus_art, result) >= 3

\* arbiter.py 186: if overlap >= 2: continue
Aligned(consensus_art, result) == Overlap(consensus_art, result) >= 2

\* mutant: an aligned specialist ends the loop instead of being passed over
SkipAlignedBreaks(items, consensus_art) ==
    IF items = <<>> THEN <<>>
    ELSE IF Aligned(consensus_art, Head(items).art) THEN <<>> ELSE items

\* the items of specialist_results the loop of generate_feedback stops at next
RECURSIVE SkipAligned(_, _)
SkipAligned(items, consensus_art) ==
    IF items = <<>> THEN <<>>
    ELSE IF Aligned(consensus_art, Head(items).art)
         THEN SkipAligned(Tail(items), consensus_art)
         ELSE items

Pending == [done |-> FALSE, ok |-> FALSE, art |-> <<>>]

\* zip(specialists, results)
Outcomes(g) ==
    [i \in 1..Len(Specialists) |->
        [sid |-> Specialists[i], ok |-> g[Specialists[i]].ok,
         art |-> g[Specialists[i]].art]]

Item(o) == [sid |-> o.sid, art |-> o.art]

RECURSIVE ItemsOf(_)
ItemsOf(os) == IF os = <<>> THEN <<>> ELSE <<Item(Head(os))>> \o ItemsOf(Tail(os))

\* mutant: the first exception ends the collection
RECURSIVE KeepUntilFailure(_)
KeepUntilFailure(os) ==
    IF os = <<>> \/ ~Head(os).ok THEN <<>>
    ELSE <<Head(os)>> \o KeepUntilFailure(Tail(os))

OutputUntilFailure(g) == ItemsOf(KeepUntilFailure(Outcomes(g)))

\* specialists.py 149-156: the results that are no exception, in the order of
\* the specialists
Output(g) == ItemsOf(SelectSeq(Outcomes(g), LAMBDA o : o.ok))

\* mutant: the first specialist's artifact replaces a consensus that exists
FallbackConsensusAlways(cons, specialist_results) ==
    IF specialist_results # <<>> THEN Consensus(Head(specialist_results).art)
    ELSE cons

\* run_arbitrated.py 154-156
FallbackConsensus(cons, specialist_results) ==
    IF ~cons.some /\ specialist_results # <<>>
    THEN Consensus(Head(specialist_results).art)
    ELSE cons

\* a model call of the arbitration and how it ended
Event(ev, round, sid, ok, items, cons) ==
    [ev |-> ev, round |-> round, sid |-> sid, ok |-> ok, items |-> items,
     cons |-> cons]

\* the feedback dict as the items it holds
FeedbackItems(fb) == [i \in 1..Len(fb) |-> [sid |-> fb[i], art |-> <<>>]]

\* the additional_context of a specialist task: empty, or a feedback text
NoContext == [some |-> FALSE, about |-> "", round |-> 0]

\* arbiter.py 205-232: fb_text, generated from the prompt that names the
\* specialist sid and quotes its result of round r
FeedbackText(sid, r) == [some |-> TRUE, about |-> sid, round |-> r]

\* mutant: every task is given the first feedback text of the round
AdditionalContextBroadcast(fb, sid, r) ==
    IF fb # <<>> THEN FeedbackText(fb[1], r) ELSE NoContext

\* specialists.py 140: feedback.get(agent.spec.specialist_id, ""), where
\* feedback[sid] is the text generated for sid (arbiter.py 232)
AdditionalContext(fb, sid, r) ==
    IF \E i \in 1..Len(fb) : fb[i] = sid THEN FeedbackText(sid, r) ELSE NoContext

ArbInit ==
    /\ arb_max_rounds \in RoundCaps
    /\ round_num = 1
    /\ consensus = NoConsensus
    /\ round_results = <<>>
    /\ arb_feedback = <<>>
    /\ fb_queue = <<>>
    /\ arb_inflight = {}
    /\ gathered = [sid \in SpecialistIds |-> Pending]
    /\ arb_log = <<>>
    /\ final_report = NoReport
    /\ merge_outputs = <<>>
    /\ contexts = [sid \in SpecialistIds |-> NoContext]
    /\ arb_pc = "loop"

ArbIdle ==
    /\ arb_max_rounds = 0
    /\ round_num = 0
    /\ consensus = NoConsensus
    /\ round_results = <<>>
    /\ arb_feedback = <<>>
    /\ fb_queue = <<>>
    /\ arb_inflight = {}
    /\ gathered = [sid \in SpecialistIds |-> Pending]
    /\ arb_log = <<>>
    /\ final_report = NoReport
    /\ merge_outputs = <<>>
    /\ contexts = [sid \in SpecialistIds |-> NoContext]
    /\ arb_pc = "idle"

\* run_arbitrated.py 129-135 and specialists.py 135-147: the round's feedback
\* is fixed and a task per specialist is handed to asyncio.gather
Dispatch(fb, log) ==
    /\ arb_feedback' = fb
    /\ fb_queue' = <<>>
    /\ arb_inflight' = SpecialistIds
    /\ gathered' = [sid \in SpecialistIds |-> Pending]
    /\ contexts' = [sid \in SpecialistIds |->
                        AdditionalContext(fb, sid, round_num - 1)]
    /\ arb_log' = Append(log, Event("dispatch", round_num, "", TRUE,
                                    FeedbackItems(fb), consensus))
    /\ arb_pc' = "gather"

\* generate_feedback goes on to the next specialist that is not aligned, or
\* returns its dict and the round is dispatched
NextFeedback(fb, rest, log) ==
    IF rest = <<>>
    THEN Dispatch(fb, log)
    ELSE /\ arb_feedback' = fb
         /\ fb_queue' = rest
         /\ arb_log' = log
         /\ arb_pc' = "feedback"
         /\ UNCHANGED <<arb_inflight, gathered, contexts>>

\* mutant: range(1, config.max_rounds + 2)
RoundsOverOneLate(rn, max) == rn > max + 1

\* run_arbitrated.py 111: range(1, config.max_rounds + 1) is exhausted
RoundsOver(rn, max) == rn > max

\* run_arbitrated.py 111-135, arbiter.py 169-210: the head of the round loop,
\* up to the first model call of the round
RoundHead ==
    /\ arb_pc = "loop"
    /\ IF RoundsOver(round_num, arb_max_rounds)
       THEN /\ arb_pc' = "synth"
            /\ UNCHANGED <<arb_feedback, fb_queue, arb_inflight, gathered, arb_log,
                           contexts>>
       ELSE IF round_num > 1 /\ consensus.some
            THEN NextFeedback(<<>>,
                              SkipAligned(round_results[Len(round_results)],
                                          consensus.art),
                              arb_log)
            ELSE Dispatch(<<>>, arb_log)
    /\ UNCHANGED <<arb_max_rounds, round_num, consensus, round_results, final_report, merge_outputs>>
    /\ UNCHANGED <<orchVars, jsonVars, genVars, refVars, readyVars, extVars, wsVars>>

\* arbiter.py 205-233: the feedback call for a specialist returns its text
FeedbackReturns ==
    /\ arb_pc = "feedback"
    /\ NextFeedback(Append(arb_feedback, Head(fb_queue).sid),
                    SkipAligned(Tail(fb_queue), consensus.art),
                    Append(arb_log, Event("feedback", round_num - 1,
                                          Head(fb_queue).sid, TRUE, <<>>, consensus)))
    /\ UNCHANGED <<arb_max_rounds, round_num, consensus, round_results, final_report, merge_outputs>>
    /\ UNCHANGED <<orchVars, jsonVars, genVars, refVars, readyVars, extVars, wsVars>>

\* mutant: the texts generated before the failing call are kept
FeedbackAfterFailureKeepsPartial(fb) == fb

\* run_arbitrated.py 125-127: the except clause assigns feedback = {}; the
\* dict generate_feedback was filling is a local of the call that raised
FeedbackAfterFailure(fb) == <<>>

\* arbiter.py 205 raises out of generate_feedback; run_arbitrated.py 125-127
FeedbackRaises ==
    /\ arb_pc = "feedback"
    /\ Dispatch(FeedbackAfterFailure(arb_feedback), Append(arb_log, Event("feedback", round_num - 1,
                                            Head(fb_queue).sid, FALSE, <<>>,
                                            consensus)))
    /\ UNCHANGED <<arb_max_rounds, round_num, consensus, round_results, final_report, merge_outputs>>
    /\ UNCHANGED <<orchVars, jsonVars, genVars, refVars, readyVars, extVars, wsVars>>

\* specialists.py 88-94: a specialist's reason() returns its result
SpecialistReturns(sid, art) ==
    /\ arb_pc = "gather"
    /\ sid \in arb_inflight
    /\ gathered' = [gathered EXCEPT ![sid] = [done |-> TRUE, ok |-> TRUE, art |-> art]]
    /\ arb_inflight' = arb_inflight \ {sid}
    /\ UNCHANGED <<arb_max_rounds, round_num, consensus, round_results, arb_feedback,
                   fb_queue, arb_log, final_report, merge_outputs, contexts, arb_pc>>
    /\ UNCHANGED <<orchVars, jsonVars, genVars, refVars, readyVars, extVars, wsVars>>

\* a specialist's reason() raises; gather(return_exceptions=True) keeps the
\* exception as its result
SpecialistRaises(sid) ==
    /\ arb_pc = "gather"
    /\ sid \in arb_inflight
    /\ gathered' = [gathered EXCEPT ![sid] = [done |-> TRUE, ok |-> FALSE, art |-> <<>>]]
    /\ arb_inflight' = arb_inflight \ {sid}
    /\ UNCHANGED <<arb_max_rounds, round_num, consensus, round_results, arb_feedback,
                   fb_queue, arb_log, final_report, merge_outputs, contexts, arb_pc>>
    /\ UNCHANGED <<orchVars, jsonVars, genVars, refVars, readyVars, extVars, wsVars>>

\* specialists.py 147-156 and run_arbitrated.py 136-150: gather returns, the
\* round's dict is built and appended, and the merge is called unless it is empty
ArbGatherDone ==
    /\ arb_pc = "gather"
    /\ arb_inflight = {}
    /\ round_results' = Append(round_results, Output(gathered))
    /\ arb_log' = Append(arb_log, Event("gather", round_num, "", TRUE,
                                        Outcomes(gathered), consensus))
    /\ arb_pc' = IF round_results'[Len(round_results')] = <<>> THEN "synth" ELSE "merge"
    /\ UNCHANGED <<arb_max_rounds, round_num, consensus, arb_feedback, fb_queue,
                   arb_inflight, gathered, final_report, merge_outputs, contexts>>
    /\ UNCHANGED <<orchVars, jsonVars, genVars, refVars, readyVars, extVars, wsVars>>

\* run_arbitrated.py 144-150: the merge returns the consensus of the round
MergeReturns(merged) ==
    /\ arb_pc = "merge"
    /\ consensus' = Consensus(merged)
    /\ merge_outputs' = Append(merge_outputs, merged)
    /\ arb_log' = Append(arb_log, Event("merge", round_num, "", TRUE,
                                        round_results[Len(round_results)], consensus))
    /\ round_num' = round_num + 1
    /\ arb_pc' = "loop"
    /\ UNCHANGED <<arb_max_rounds, round_results, arb_feedback, fb_queue,
                   arb_inflight, gathered, final_report, contexts>>
    /\ UNCHANGED <<orchVars, jsonVars, genVars, refVars, readyVars, extVars, wsVars>>

\* run_arbitrated.py 151-157: the merge raises and the loop is left
MergeRaises ==
    /\ arb_pc = "merge"
    /\ consensus' = FallbackConsensus(consensus, round_results[Len(round_results)])
    /\ arb_log' = Append(arb_log, Event("merge", round_num, "", FALSE,
                                        round_results[Len(round_results)], consensus))
    /\ arb_pc' = "synth"
    /\ UNCHANGED <<arb_max_rounds, round_num, round_results, arb_feedback, fb_queue,
                   arb_inflight, gathered, final_report, merge_outputs, contexts>>
    /\ UNCHANGED <<orchVars, jsonVars, genVars, refVars, readyVars, extVars, wsVars>>

\* run_arbitrated.py 162-169: the re-synthesis returns a report
SynthReturns ==
    /\ arb_pc = "synth"
    /\ final_report' = SynthesisReport(consensus)
    /\ arb_log' = Append(arb_log, Event("synth", round_num, "", TRUE, <<>>, consensus))
    /\ arb_pc' = "done"
    /\ UNCHANGED <<arb_max_rounds, round_num, consensus, round_results, arb_feedback,
                   fb_queue, arb_inflight, gathered, merge_outputs, contexts>>
    /\ UNCHANGED <<orchVars, jsonVars, genVars, refVars, readyVars, extVars, wsVars>>

\* run_arbitrated.py 170-172: the re-synthesis raises
SynthRaises ==
    /\ arb_pc = "synth"
    /\ final_report' = BaselineReport
    /\ arb_log' = Append(arb_log, Event("synth", round_num, "", FALSE, <<>>, consensus))
    /\ arb_pc' = "done"
    /\ UNCHANGED <<arb_max_rounds, round_num, consensus, round_results, arb_feedback,
                   fb_queue, arb_inflight, gathered, merge_outputs, contexts>>
    /\ UNCHANGED <<orchVars, jsonVars, genVars, refVars, readyVars, extVars, wsVars>>

\* ------------------------------------------------------------------------
\* MedGemmaService.wait_until_ready and check_readiness (app/services/medgemma.py)
\* ------------------------------------------------------------------------

\* the largest timeout, in poll ticks
MaxTimeout == 3

PollIntervals == {1, 2}

\* how long a probe may take, in the same ticks
ProbeDurations == {0, 1}

\* how the completions request of a probe may end
ProbeOutcomes == {"choices", "no_choices", "error"}

\* lines 74-85: bool(response.choices), and False on any exception
CheckReadiness(outcome) == outcome = "choices"

\* mutant: gives up one tick before the deadline
GivesUpBeforeDeadline(elapsed, timeout) == elapsed + 1 >= timeout

\* line 116: if elapsed >= timeout
GivesUp(elapsed, timeout) == elapsed >= timeout

\* mutant: the callback is never invoked
OnWaitingSilent(log, on_waiting, elapsed) == log

\* lines 125-126: if on_waiting: await on_waiting(elapsed, msg)
OnWaiting(log, on_waiting, elapsed) ==
    IF on_waiting THEN Append(log, elapsed) ELSE log

ReadyInit ==
    /\ ready_timeout \in 0..MaxTimeout
    /\ poll_interval \in PollIntervals
    /\ has_on_waiting \in BOOLEAN
    /\ now = 0
    /\ ready_attempt = 0
    /\ probes = <<>>
    /\ waiting_calls = <<>>
    /\ ready_result = "None"
    /\ ready_pc = "probe"

ReadyIdle ==
    /\ ready_timeout = 0
    /\ poll_interval = 0
    /\ has_on_waiting = FALSE
    /\ now = 0
    /\ ready_attempt = 0
    /\ probes = <<>>
    /\ waiting_calls = <<>>
    /\ ready_result = "None"
    /\ ready_pc = "idle"

\* lines 110-126: one probe, then the return or the callback
Probe(outcome, duration) ==
    /\ ready_pc = "probe"
    /\ ready_attempt' = ready_attempt + 1
    /\ now' = now + duration
    /\ probes' = Append(probes, [ok |-> CheckReadiness(outcome), at |-> now'])
    /\ IF CheckReadiness(outcome)
       THEN /\ ready_result' = "True"
            /\ ready_pc' = "returned"
            /\ UNCHANGED waiting_calls
       ELSE IF GivesUp(now', ready_timeout)
            THEN /\ ready_result' = "False"
                 /\ ready_pc' = "returned"
                 /\ UNCHANGED waiting_calls
            ELSE /\ waiting_calls' = OnWaiting(waiting_calls, has_on_waiting, now')
                 /\ ready_pc' = "sleep"
                 /\ UNCHANGED ready_result
    /\ UNCHANGED <<ready_timeout, poll_interval, has_on_waiting>>
    /\ UNCHANGED <<orchVars, jsonVars, genVars, refVars, arbVars, extVars, wsVars>>

\* line 128: await asyncio.sleep(poll_interval)
Sleep ==
    /\ ready_pc = "sleep"
    /\ now' = now + poll_interval
    /\ ready_pc' = "probe"
    /\ UNCHANGED <<ready_timeout, poll_interval, has_on_waiting, ready_attempt, probes,
                   waiting_calls, ready_result>>
    /\ UNCHANGED <<orchVars, jsonVars, genVars, refVars, arbVars, extVars, wsVars>>

\* ------------------------------------------------------------------------
\* MedGemmaService._extract_json applied to the replies of the endpoint
\* ------------------------------------------------------------------------

\* what a reply says before and after its JSON; neither holds a bracket
Proses    == {<<>>, <<"O", "k", ":", "\n">>}
Epilogues == {<<>>, <<"\n", "E", "n", "d", ".">>}

\* an opening fence is followed by json, by another language tag, or by nothing
FenceKinds == {"json", "tagged", "bare"}

InfoString(kind) ==
    CASE kind = "json"   -> <<"j", "s", "o", "n">>
      [] kind = "tagged" -> <<"p", "y">>
      [] OTHER           -> <<>>

\* complete values none of whose strings holds a bracket
PlainValues ==
    { JObj(<< <<"a">> >>, <<JNum(1)>>),
      JArr(<<JNum(1), JStr(<<"b">>)>>),
      JObj(<< <<"a">>, <<"c">> >>, <<JStr(<<"b">>), JArr(<<JNum(1), JNum(2)>>)>>) }

\* complete values with a bracket inside a string
BracketValues ==
    { JObj(<< <<"a">> >>, <<JStr(<<"}", " ">>)>>),
      JArr(<<JStr(<<"[", ",">>)>>),
      JObj(<< <<"a">>, <<"c">> >>, <<JStr(<<"x", "]">>), JNum(1)>>),
      JObj(<< <<"a", "{">> >>, <<JArr(<<JNum(1)>>)>>) }

\* what stands inside a fenced block: a complete value, or one cut short
BlockBodies ==
    { Dumps(JObj(<< <<"a">> >>, <<JNum(1)>>)),
      Dumps(JArr(<<JStr(<<"[", ",">>)>>)),
      <<"{", QUOTE, "a", QUOTE, ":", " ", "[", "1", ",", " ">> }

Blocks == [kind : FenceKinds, body : BlockBodies, closed : BOOLEAN]

ClosedBlocks == {b \in Blocks : b.closed}

\* one block, or a closed block followed by another one
BlockSeqs == {<<b>> : b \in Blocks} \cup (ClosedBlocks \X Blocks)

\* a reply whose last block is not closed ends inside that block
FencedReplies ==
    { r \in [prose : Proses, blocks : BlockSeqs, bare : {JNull}, kept : {0},
             epilogue : Epilogues] :
        r.blocks[Len(r.blocks)].closed \/ r.epilogue = <<>> }

UnfencedReplies ==
    [prose : Proses, blocks : {<<>>}, bare : PlainValues \cup BracketValues,
     kept : {0}, epilogue : Epilogues]

\* output that stopped at the token limit: only the first kept characters of
\* the value's text arrived, and nothing after them
TruncatedReplies ==
    UNION { [prose : Proses, blocks : {<<>>}, bare : {v},
             kept : 1..(Len(Dumps(v)) - 1), epilogue : {<<>>}] : v \in PlainValues }

Replies == FencedReplies \cup UnfencedReplies \cup TruncatedReplies

\* the JSON text of a reply without a fence, as far as it arrived
Payload(r) ==
    IF r.kept = 0 THEN Dumps(r.bare) ELSE SubSeq(Dumps(r.bare), 1, r.kept)

RenderBlock(b) ==
    Fence \o InfoString(b.kind) \o <<"\n">> \o b.body
    \o (IF b.closed THEN <<"\n">> \o Fence ELSE <<>>)

RECURSIVE RenderBlocks(_)
RenderBlocks(bs) ==
    IF bs = <<>> THEN <<>>
    ELSE RenderBlock(Head(bs))
         \o (IF Tail(bs) = <<>> THEN <<>> ELSE <<"\n">> \o RenderBlocks(Tail(bs)))

\* the text of a reply
Render(r) ==
    r.prose
    \o (IF r.blocks = <<>> THEN Payload(r) ELSE RenderBlocks(r.blocks))
    \o r.epilogue

ExtInit ==
    /\ reply \in Replies
    /\ reply_text = Render(reply)
    /\ extracted = <<>>
    /\ ext_pc = "call"

ExtIdle ==
    /\ reply = [prose |-> <<>>, blocks |-> <<>>, bare |-> JNull, kept |-> 0,
                epilogue |-> <<>>]
    /\ reply_text = <<>>
    /\ extracted = <<>>
    /\ ext_pc = "idle"

\* json_str = self._extract_json(raw)
ExtractJsonCall ==
    /\ ext_pc = "call"
    /\ extracted' = ExtractJson(reply_text)
    /\ ext_pc' = "returned"
    /\ UNCHANGED <<reply, reply_text>>
    /\ UNCHANGED <<orchVars, jsonVars, genVars, refVars, arbVars, readyVars, wsVars>>

\* ------------------------------------------------------------------------
\* agent_websocket (app/api/ws.py): one connection
\* ------------------------------------------------------------------------

\* what the client sends first: a case, or text that is no CaseSubmission
WsInputs == {"case", "invalid"}

\* a message of the server; step is the update of a step_update, else empty
Message(type, step) == [type |-> type, step |-> step]

\* mutant: the pipeline is started whatever wait_until_ready returned
IsReadyAlways(result) == TRUE

\* ws.py 69-70: ready = await medgemma.wait_until_ready(...); if not ready
IsReady(result) == result = "True"

WsInit ==
    /\ ws_input \in WsInputs
    /\ ws_pc = "receive"
    /\ ws_sent = <<>>
    /\ ws_connected = TRUE
    /\ ws_seen = 0

WsIdle ==
    /\ ws_input = "none"
    /\ ws_pc = "idle"
    /\ ws_sent = <<>>
    /\ ws_connected = FALSE
    /\ ws_seen = 0

\* await websocket.send_json(msg) and on to next; on a connection that is
\* gone the call raises, the handlers of lines 108-122 send nothing, and the
\* socket is closed
SendJson(msg, next) ==
    IF ws_connected
    THEN ws_sent' = Append(ws_sent, msg) /\ ws_pc' = next
    ELSE ws_sent' = ws_sent /\ ws_pc' = "closed"

\* the client goes away
ClientDisconnects ==
    /\ ws_pc \notin {"closed", "idle"}
    /\ ws_connected
    /\ ws_connected' = FALSE
    /\ UNCHANGED <<ws_input, ws_pc, ws_sent, ws_seen>>
    /\ UNCHANGED <<orchVars, jsonVars, genVars, refVars, arbVars, readyVars, extVars>>

\* lines 45-53 and 110-120: the first message is received and answered
WsReceive ==
    /\ ws_pc = "receive"
    /\ IF ws_input = "invalid"
       THEN SendJson(Message("error", <<>>), "closed")
       ELSE SendJson(Message("ack", <<>>), "waiting")
    /\ UNCHANGED <<ws_input, ws_connected, ws_seen>>
    /\ UNCHANGED <<orchVars, jsonVars, genVars, refVars, arbVars, readyVars, extVars>>

\* lines 58-67: _send_warming, awaited by wait_until_ready; a failed send is
\* swallowed
SendWarming ==
    /\ ws_pc = "waiting"
    /\ ws_seen < Len(waiting_calls)
    /\ ws_seen' = ws_seen + 1
    /\ ws_sent' = IF ws_connected
                  THEN Append(ws_sent, Message("warming_up", <<>>))
                  ELSE ws_sent
    /\ UNCHANGED <<ws_input, ws_pc, ws_connected>>
    /\ UNCHANGED <<orchVars, jsonVars, genVars, refVars, arbVars, readyVars, extVars>>

\* wait_until_ready goes on once its callback has returned
WaitStep ==
    /\ ws_pc = "waiting"
    /\ ws_seen = Len(waiting_calls)
    /\ \/ \E outcome \in ProbeOutcomes, duration \in ProbeDurations :
             Probe(outcome, duration)
       \/ Sleep

\* lines 69-83: wait_until_ready returned
WsGate ==
    /\ ws_pc = "waiting"
    /\ ready_pc = "returned"
    /\ ws_seen = Len(waiting_calls)
    /\ IF IsReady(ready_result)
       THEN /\ SendJson(Message("model_ready", <<>>), "run")
            /\ ws_seen' = 0
       ELSE /\ SendJson(Message("error", <<>>), "closed")
            /\ UNCHANGED ws_seen
    /\ UNCHANGED <<ws_input, ws_connected>>
    /\ UNCHANGED <<orchVars, jsonVars, genVars, refVars, arbVars, readyVars, extVars>>

\* line 88: the loop asks the generator for its next update
RunStep ==
    /\ ws_pc = "run"
    /\ ws_seen = Len(emitted)
    /\ \/ StartParse
       \/ RunParse
       \/ AfterParse
       \/ RunReason
       \/ AfterReason
       \/ YieldSkipped
       \/ AfterDrugsRunning
       \/ AfterGuidelinesRunning
       \/ \E id \in {"drugs", "guidelines"} : TaskFinish(id)
       \/ GatherDone
       \/ YieldResult
       \/ RunConflicts
       \/ AfterConflicts
       \/ RunSynthesize
       \/ Finish

\* lines 88-92: the update the generator yielded is sent
SendStepUpdate ==
    /\ ws_pc = "run"
    /\ ws_seen < Len(emitted)
    /\ SendJson(Message("step_update", emitted[ws_seen + 1]), "run")
    /\ ws_seen' = ws_seen + 1
    /\ UNCHANGED <<ws_input, ws_connected>>
    /\ UNCHANGED <<orchVars, jsonVars, genVars, refVars, arbVars, readyVars, extVars>>

\* lines 95-100: the generator is exhausted; the report is sent if there is one
SendReport ==
    /\ ws_pc = "run"
    /\ pc = "done"
    /\ ws_seen = Len(emitted)
    /\ IF GetResult # "None"
       THEN SendJson(Message("report", <<>>), "complete")
       ELSE ws_sent' = ws_sent /\ ws_pc' = "complete"
    /\ UNCHANGED <<ws_input, ws_connected, ws_seen>>
    /\ UNCHANGED <<orchVars, jsonVars, genVars, refVars, arbVars, readyVars, extVars>>

\* lines 103-106
SendComplete ==
    /\ ws_pc = "complete"
    /\ SendJson(Message("complete", <<>>), "closed")
    /\ UNCHANGED <<ws_input, ws_connected, ws_seen>>
    /\ UNCHANGED <<orchVars, jsonVars, genVars, refVars, arbVars, readyVars, extVars>>

\* ------------------------------------------------------------------------
\* Specifications
\* ------------------------------------------------------------------------

OrchIdle ==
    /\ case = [include_drug_check |-> FALSE, include_guidelines |-> FALSE]
    /\ steps = <<>>
    /\ slots = [s \in SlotNames |-> "None"]
    /\ completed_at = FALSE
    /\ pc = "idle"
    /\ inflight = {}
    /\ to_yield = <<>>
    /\ emitted = <<>>
    /\ observed = [id \in StepIds |-> <<PENDING>>]
    /\ writes = <<>>
    /\ pipeline_out = NotReturned

\* the pipeline of one case
Init == OrchInit /\ JsonIdle /\ GenIdle /\ RefIdle /\ ArbIdle /\ ReadyIdle /\ ExtIdle /\ WsIdle

Next ==
    \/ StartParse
    \/ RunParse
    \/ AfterParse
    \/ RunReason
    \/ AfterReason
    \/ YieldSkipped
    \/ AfterDrugsRunning
    \/ AfterGuidelinesRunning
    \/ \E id \in {"drugs", "guidelines"} : TaskFinish(id)
    \/ GatherDone
    \/ YieldResult
    \/ RunConflicts
    \/ AfterConflicts
    \/ RunSynthesize
    \/ Finish
    \/ RunCdsPipelineReturns

Spec == Init /\ [][Next]_vars

\* every awaited tool call returns or raises, and the consumer of run asks
\* for the next update after each one it was handed
SpecFair == Spec /\ WF_vars(Next)

\* one repair round trip
InitJson == JsonInit /\ OrchIdle /\ GenIdle /\ RefIdle /\ ArbIdle /\ ReadyIdle /\ ExtIdle /\ WsIdle

NextJson ==
    \/ Serialize
    \/ \E d \in 1..MaxDepth, trail \in Trails : Truncate(d, trail)
    \/ Repair
    \/ Parse

SpecJson == InitJson /\ [][NextJson]_vars

\* one generate_structured call
InitGen == GenInit /\ OrchIdle /\ JsonIdle /\ RefIdle /\ ArbIdle /\ ReadyIdle /\ ExtIdle /\ WsIdle

NextGen ==
    \/ GenerateCall
    \/ \E resp \in EndpointResponses : PrimaryRequest(resp)
    \/ \E resp \in EndpointResponses : FallbackRequest(resp)
    \/ Wake

SpecGen == InitGen /\ [][NextGen]_vars

\* one refine call
InitRefine == RefInit /\ OrchIdle /\ JsonIdle /\ GenIdle /\ ArbIdle /\ ReadyIdle /\ ExtIdle /\ WsIdle

NextRefine ==
    \/ LoopHead
    \/ \E revised \in ArtifactSamples : CritiqueReturns(revised)
    \/ CritiqueFails

SpecRefine == InitRefine /\ [][NextRefine]_vars

\* every awaited critique call returns or raises, and refine is resumed
SpecRefineFair == SpecRefine /\ WF_vars(NextRefine)

\* one arbitrated case, after its baseline pipeline run
InitArb == ArbInit /\ OrchIdle /\ JsonIdle /\ GenIdle /\ RefIdle /\ ReadyIdle /\ ExtIdle /\ WsIdle

NextArb ==
    \/ RoundHead
    \/ FeedbackReturns
    \/ FeedbackRaises
    \/ \E sid \in SpecialistIds : \E art \in SpecialistAnswers(sid) :
          SpecialistReturns(sid, art)
    \/ \E sid \in SpecialistIds : SpecialistRaises(sid)
    \/ ArbGatherDone
    \/ \E merged \in MergeAnswers : MergeReturns(merged)
    \/ MergeRaises
    \/ SynthReturns
    \/ SynthRaises

SpecArb == InitArb /\ [][NextArb]_vars

\* one wait_until_ready call
InitReady == ReadyInit /\ OrchIdle /\ JsonIdle /\ GenIdle /\ RefIdle /\ ArbIdle /\ ExtIdle /\ WsIdle

NextReady ==
    \/ \E outcome \in ProbeOutcomes, duration \in ProbeDurations :
          Probe(outcome, duration)
    \/ Sleep

SpecReady == InitReady /\ [][NextReady]_vars

\* one _extract_json call on one reply
InitExtract == ExtInit /\ OrchIdle /\ JsonIdle /\ GenIdle /\ RefIdle /\ ArbIdle /\ ReadyIdle /\ WsIdle

NextExtract == ExtractJsonCall

SpecExtract == InitExtract /\ [][NextExtract]_vars

\* one WebSocket connection: the readiness gate, then the pipeline of the case
InitWs ==
    /\ WsInit /\ OrchInit /\ ReadyInit /\ has_on_waiting
    /\ JsonIdle /\ GenIdle /\ RefIdle /\ ArbIdle /\ ExtIdle

NextWs ==
    \/ ClientDisconnects
    \/ WsReceive
    \/ SendWarming
    \/ WaitStep
    \/ WsGate
    \/ RunStep
    \/ SendStepUpdate
    \/ SendReport
    \/ SendComplete

SpecWs == InitWs /\ [][NextWs]_vars

\* ------------------------------------------------------------------------
\* Properties of Orchestrator.run (specification Spec)
\* ------------------------------------------------------------------------

IsPrefix(s, t) == Len(s) <= Len(t) /\ SubSeq(t, 1, Len(s)) = s

Statuses(id) == {observed[id][k] : k \in 1..Len(observed[id])}

StatusOf(id) == GetStep(steps, id).status

\* the steps ordered after step id in the case's step list
StepsAfter(id) ==
    {steps[i].step_id : i \in {k \in 1..Len(steps) : k > StepIndex(steps, id)}}

WritersOf == {writes[k][2] : k \in 1..Len(writes)}

\* C1 as stated: the statuses a step takes are a prefix of Pending, Running,
\* then one terminal status, so that no step becomes Completed, Failed or
\* Skipped without having been Running first.
C1_TerminalOnlyAfterRunning ==
    \A id \in StepIds :
        \E t \in Terminal : IsPrefix(observed[id], <<PENDING, RUNNING, t>>)

\* C1 as the code has it: the statuses a step takes are a prefix of Pending,
\* Running, then Completed or Failed, or else Pending followed directly by
\* Skipped. The status never regresses and a terminal status never changes;
\* only Completed and Failed are entered from Running, Skipped is entered
\* from Pending.
C1_StatusMonotone ==
    \A id \in StepIds :
        /\ \/ \E t \in {COMPLETED, FAILED} :
                 IsPrefix(observed[id], <<PENDING, RUNNING, t>>)
           \/ observed[id] = <<PENDING, SKIPPED>>
        /\ HasStep(steps, id) => StatusOf(id) = observed[id][Len(observed[id])]

\* reason failed after parse completed, and the terminal step was skipped
\* without ever running
C1_SkippedFromPending ==
    /\ pc = "done"
    /\ observed["parse"] = <<PENDING, RUNNING, COMPLETED>>
    /\ observed["reason"] = <<PENDING, RUNNING, FAILED>>
    /\ observed["synthesize"] = <<PENDING, SKIPPED>>

\* C2: once parse or reason has ended Failed, every step ordered after it
\* never reaches Running and writes no result, is marked Skipped with the
\* error that names the failed step as soon as run resumes, and the run ends
\* with no final report.
C2_CascadeAfterHardFailure ==
    \A f \in {"parse", "reason"} :
        (HasStep(steps, f) /\ StatusOf(f) = FAILED) =>
            /\ pc \in {f \o "_yielded", "yield_skipped", "done"}
            /\ \A id \in StepsAfter(f) :
                  /\ RUNNING \notin Statuses(id)
                  /\ id \notin WritersOf
                  /\ IF pc = f \o "_yielded"
                     THEN StatusOf(id) = PENDING
                     ELSE /\ StatusOf(id) = SKIPPED
                          /\ GetStep(steps, id).error = SkippedError(f)
                          /\ GetStep(steps, id).error.ref # id
            /\ "synthesize" \in StepsAfter(f)
            /\ GetResult = "None"
            /\ pc = "done" => completed_at

\* a case with only parse, reason and synthesize, whose reason step failed
C2_ReasonFailedOnly ==
    /\ pc = "done"
    /\ Len(steps) = 3
    /\ StatusOf("reason") = FAILED
    /\ StatusOf("synthesize") = SKIPPED
    /\ GetStep(steps, "synthesize").error = SkippedError("reason")
    /\ GetResult = "None"

GroupIds == {"drugs", "guidelines"}

GroupFailed == \E g \in GroupIds : HasStep(steps, g) /\ StatusOf(g) = FAILED

\* C3: once a step of the concurrent group has ended Failed, no step of the
\* case is ever Skipped, each group step ends on its own outcome (Completed
\* exactly when its own result was written), the run goes on to its end, and
\* at the end the group steps, conflicts and synthesize have all been Running
\* and are Completed or Failed.
C3_SoftFailureIsolation ==
    GroupFailed =>
        /\ \A i \in 1..Len(steps) : steps[i].status # SKIPPED
        /\ \A g \in GroupIds :
              HasStep(steps, g) =>
                  /\ StatusOf(g) = COMPLETED <=> g \in WritersOf
                  /\ StatusOf(g) = FAILED => GetStep(steps, g).error = ExceptionError(g)
        /\ pc # "done" => ENABLED Next
        /\ pc = "done" =>
              \A i \in 1..Len(steps) :
                  /\ steps[i].status \in {COMPLETED, FAILED}
                  /\ observed[steps[i].step_id]
                        = <<PENDING, RUNNING, steps[i].status>>

\* drugs failed, its sibling completed, conflicts and synthesize still ran
C3_DrugsFailedSiblingCompleted ==
    /\ pc = "done"
    /\ HasStep(steps, "drugs") /\ StatusOf("drugs") = FAILED
    /\ HasStep(steps, "guidelines") /\ StatusOf("guidelines") = COMPLETED
    /\ StatusOf("conflicts") \in {COMPLETED, FAILED}
    /\ RUNNING \in Statuses("synthesize")
    /\ StatusOf("synthesize") = COMPLETED

\* the statuses of the updates emitted for a step, in emission order
EmittedFor(id) ==
    LET ups == SelectSeq(emitted, LAMBDA u : u[1] = id)
    IN  [k \in 1..Len(ups) |-> ups[k][2]]

\* the statuses a step has reached by a transition, in order
Transitions(id) == Tail(observed[id])

\* C21: the updates emitted for a step carry, in order, the statuses the
\* step reached by its transitions, one update per transition and none
\* besides; every update belongs to a step of the case; when run is over
\* every transition has its update, so that a step that was run has two
\* updates and a skipped step one.
C21_OneUpdatePerTransition ==
    /\ \A k \in 1..Len(emitted) : HasStep(steps, emitted[k][1])
    /\ \A id \in StepIds :
          /\ IsPrefix(EmittedFor(id), Transitions(id))
          /\ pc = "done" =>
                /\ EmittedFor(id) = Transitions(id)
                /\ RUNNING \in Statuses(id) => Len(EmittedFor(id)) = 2
                /\ SKIPPED \in Statuses(id) => Len(EmittedFor(id)) = 1
                /\ HasStep(steps, id) => Len(EmittedFor(id)) >= 1

\* a six-step case whose reason step failed: two updates each for parse and
\* reason, one for each of the four skipped steps
C21_EightUpdates ==
    /\ pc = "done"
    /\ Len(steps) = 6
    /\ StatusOf("reason") = FAILED
    /\ Len(emitted) = 8
    /\ EmittedFor("reason") = <<RUNNING, FAILED>>
    /\ EmittedFor("drugs") = <<SKIPPED>>

\* C22: at every point of a run, get_result returns a report exactly when
\* the synthesize step is Completed; a run that ended with parse or reason
\* Failed, or with synthesize Failed or Skipped, has none.
C22_ReportIffSynthesizeCompleted ==
    /\ GetResult # "None" <=> StatusOf("synthesize") = COMPLETED
    /\ (\E f \in {"parse", "reason", "synthesize"} : StatusOf(f) = FAILED) =>
          GetResult = "None"
    /\ pc = "done" =>
          (GetResult = "None" <=> StatusOf("synthesize") \in {FAILED, SKIPPED})

\* every step before synthesize completed, synthesize failed, and the run
\* ended without a report
C22_SynthesizeFailedNoReport ==
    /\ pc = "done"
    /\ Len(steps) = 6
    /\ \A i \in 1..5 : steps[i].status = COMPLETED
    /\ StatusOf("synthesize") = FAILED
    /\ GetResult = "None"

FailedIds == {steps[i].step_id : i \in {k \in 1..Len(steps) : steps[k].status = FAILED}}

\* C23: what run_cds_pipeline returns has a report and no error exactly when
\* synthesize is Completed, whatever the optional steps ended with;
\* otherwise it has no report and its error lists, in step order, every
\* Failed step of the case with that step's error.
C23_ErrorIffNoReport ==
    pipeline_out.returned =>
        /\ pipeline_out.report = GetResult
        /\ pipeline_out.report # "None" <=> StatusOf("synthesize") = COMPLETED
        /\ pipeline_out.error.kind = "None" <=> pipeline_out.report # "None"
        /\ pipeline_out.report = "None" =>
              LET parts == pipeline_out.error.parts IN
              /\ pipeline_out.error.kind = "failed_steps"
              /\ {parts[i].step_id : i \in 1..Len(parts)} = FailedIds
              /\ Len(parts) = Cardinality(FailedIds)
              /\ FailedIds # {}
              /\ \A i \in 1..Len(parts) :
                    parts[i].error = GetStep(steps, parts[i].step_id).error
              /\ \A i, j \in 1..Len(parts) :
                    i < j => StepIndex(steps, parts[i].step_id)
                               < StepIndex(steps, parts[j].step_id)

\* drugs and synthesize failed: no report, and an error naming both
C23_TwoFailedStepsReported ==
    /\ pipeline_out.returned
    /\ pipeline_out.report = "None"
    /\ FailedIds = {"drugs", "synthesize"}
    /\ Len(pipeline_out.error.parts) = 2

\* the steps that run after the concurrent group
LaterIds == {"conflicts", "synthesize"}

\* C25: with both optional steps configured, a group step reaches Completed
\* or Failed only after both group steps have been Running, and conflicts and
\* synthesize are never Running (or beyond) while a group step is not yet
\* terminal, whichever group step finishes first.
C25_GroupJoinsBeforeLaterSteps ==
    (case.include_drug_check /\ case.include_guidelines) =>
        /\ \A g \in GroupIds :
              StatusOf(g) \in {COMPLETED, FAILED} =>
                  \A h \in GroupIds : RUNNING \in Statuses(h)
        /\ \A l \in LaterIds :
              RUNNING \in Statuses(l) =>
                  \A g \in GroupIds : StatusOf(g) \in Terminal

\* C25 witness: guidelines has finished while drugs, dispatched with it, is
\* still running and conflicts has not started
C25_GuidelinesFinishedFirst ==
    /\ case.include_drug_check /\ case.include_guidelines
    /\ pc = "gather"
    /\ StatusOf("guidelines") \in {COMPLETED, FAILED}
    /\ StatusOf("drugs") = RUNNING
    /\ "drugs" \in inflight
    /\ StatusOf("conflicts") = PENDING

\* the slots that have been assigned so far
WrittenSlots == {writes[k][1] : k \in 1..Len(writes)}

\* every assignment is to the slot of the step that made it, no slot is
\* assigned twice, and a slot holds a value exactly when it was assigned
WriteOnce ==
    /\ \A k \in 1..Len(writes) : writes[k][1] = SlotOf(writes[k][2])
    /\ \A j, k \in 1..Len(writes) : writes[j][1] = writes[k][1] => j = k
    /\ \A sl \in SlotNames : slots[sl] # "None" <=> sl \in WrittenSlots

\* the two steps of the group assign different slots and read only the
\* slots of parse and reason
GroupDisjoint ==
    /\ SlotOf("drugs") # SlotOf("guidelines")
    /\ \A g \in GroupIds : ReadsOf(g) \subseteq {SlotOf("parse"), SlotOf("reason")}

\* a slot that holds a value keeps it
SlotsKept == \A sl \in SlotNames : slots[sl] # "None" => slots'[sl] = slots[sl]

\* C26: in one run every slot is assigned at most once and only by its own
\* step, a slot once assigned is never changed by a later step, and the two
\* concurrent steps assign different slots and read only the slots assigned
\* by parse and reason.
C26_SlotsWriteOnce == [](WriteOnce /\ GroupDisjoint) /\ [][SlotsKept]_vars

\* C26 witness: the run is over, all six slots were assigned, one by each step
C26_AllSixSlotsWritten ==
    /\ pc = "done"
    /\ Len(writes) = 6
    /\ WrittenSlots = SlotNames
    /\ WritersOf = StepIds

\* C27: in every reachable state a Completed step has an output summary and
\* no error, a Failed or Skipped step has an error and no output summary, a
\* Completed or Failed step has a duration and a Skipped step has none.
C27_StepRecordMatchesStatus ==
    \A i \in 1..Len(steps) :
        /\ steps[i].status = COMPLETED =>
              steps[i].output_summary /\ steps[i].error = NoError
        /\ steps[i].status \in {FAILED, SKIPPED} =>
              steps[i].error # NoError /\ ~steps[i].output_summary
        /\ steps[i].status \in {COMPLETED, FAILED} => steps[i].duration_ms
        /\ steps[i].status = SKIPPED => ~steps[i].duration_ms

\* C27 witness: a run that ended with a Completed, a Failed and a Skipped step
C27_CompletedFailedSkipped ==
    /\ pc = "done"
    /\ StatusOf("parse") = COMPLETED
    /\ StatusOf("reason") = FAILED
    /\ StatusOf("synthesize") = SKIPPED

\* C35: the parse step never takes the status Failed, whatever the endpoint
\* does: it ends Completed with the model's profile or the fallback profile,
\* no step is ever skipped on account of parse, and the reason step has been
\* started as soon as run has gone past the parse step.
C35_ParseNeverFails ==
    /\ FAILED \notin Statuses("parse")
    /\ SKIPPED \notin Statuses("parse")
    /\ \A i \in 1..Len(steps) : steps[i].error # SkippedError("parse")
    /\ COMPLETED \in Statuses("parse") =>
          slots["patient_profile"] \in {"parsed", "fallback"}
    /\ pc \notin {"start", "parse_running", "parse_yielded"} =>
          /\ StatusOf("parse") = COMPLETED
          /\ RUNNING \in Statuses("reason")

\* C35 witness: the endpoint failed, parse completed with the fallback
\* profile and the reason step was started
C35_FallbackProfileThenReason ==
    /\ StatusOf("parse") = COMPLETED
    /\ slots["patient_profile"] = "fallback"
    /\ StatusOf("reason") = RUNNING

\* run has ended with completed_at set and every step of the case terminal
EndedClean ==
    /\ pc = "done"
    /\ completed_at
    /\ \A i \in 1..Len(steps) : steps[i].status \in Terminal

\* C36: when every tool call returns or raises and the updates are consumed,
\* run eventually ends, for every choice of the two flags and every outcome
\* of the steps; and whenever it has ended, completed_at is set and no step
\* is Pending or Running.
C36_RunEndsClean == <>(pc = "done") /\ [](pc = "done" => EndedClean)

\* C36 witness: a case with both options ended after its guidelines step
\* failed and its other five steps completed
C36_EndedWithAFailedGroupStep ==
    /\ EndedClean
    /\ Len(steps) = 6
    /\ StatusOf("guidelines") = FAILED
    /\ \A id \in StepIds \ {"guidelines"} : StatusOf(id) = COMPLETED

\* test_e2e.py 58-65: the step ids its assertions expect
ExpectedStepIds ==
    {"parse_patient", "clinical_reasoning", "drug_interactions",
     "guideline_retrieval", "conflict_detection", "synthesis"}

\* C24: a case with drug check and guidelines enabled has six steps, their
\* ids are the six ids test_e2e.py expects, and when the run is over and no
\* step failed all six are Completed.
C24_SixStepsAsTestExpects ==
    (case.include_drug_check /\ case.include_guidelines) =>
        /\ Len(steps) = 6
        /\ {steps[i].step_id : i \in 1..Len(steps)} = ExpectedStepIds
        /\ (pc = "done" /\ FailedIds = {}) =>
              \A i \in 1..Len(steps) : steps[i].status = COMPLETED

\* ------------------------------------------------------------------------
\* Properties of generate and generate_structured (specification SpecGen)
\* ------------------------------------------------------------------------

\* the requests of the c-th generate call, in the order they were sent
CallRequests(c) == SelectSeq(requests, LAMBDA r : r.call = c)

RequestsOf(c, kind) == SelectSeq(requests, LAMBDA r : r.call = c /\ r.kind = kind)

DelaysOf(c) == SelectSeq(delays, LAMBDA d : d.call = c)

MatchesTransientKeyword(msg) == msg \cap TransientKeywords # {}

\* the failure is the one line 250 sends to the fallback
SentToFallback(r) == r.kind = "primary" /\ system_prompt /\ "system" \in r.resp.msg

\* the failure is the one lines 268-273 classify: the last failure of its attempt
ClassifiedTransient(r) ==
    ~r.resp.ok /\ ~SentToFallback(r) /\ MatchesTransientKeyword(r.resp.msg)

\* C4: in every generate call the primary requests are attempts 1, 2, 3 at
\* most; the k-th backoff delay is 5 * 2^(k-1) seconds and precedes attempt
\* k + 1; a failure classified transient before the last attempt is followed
\* by a delay and the next primary request; a success at attempt k is what the
\* call returns, after exactly k primary requests; a failure at the third
\* attempt raises with no further delay or request.
C4_TransientRetryWithBackoff ==
    \A c \in 1..Len(calls) :
        LET P == RequestsOf(c, "primary")
            D == DelaysOf(c)
            R == CallRequests(c)
        IN  /\ Len(P) <= MAX_API_RETRIES
            /\ \A k \in 1..Len(P) :
                  /\ P[k].attempt = k - 1
                  /\ P[k].slept = P[1].slept + (k - 1)
            /\ Len(D) <= MAX_API_RETRIES - 1
            /\ \A k \in 1..Len(D) : D[k].seconds = RETRY_BASE_DELAY * (2 ^ (k - 1))
            /\ \A k \in 1..Len(R) :
                  /\ (ClassifiedTransient(R[k]) /\ R[k].attempt < MAX_API_RETRIES - 1) =>
                        /\ Len(D) >= R[k].attempt + 1
                        /\ IF k < Len(R)
                           THEN /\ R[k + 1].kind = "primary"
                                /\ R[k + 1].attempt = R[k].attempt + 1
                                /\ R[k + 1].slept = R[k].slept + 1
                           ELSE c = Len(calls) /\ api_pc \in {"sleep", "request"}
                  /\ R[k].resp.ok =>
                        /\ k = Len(R)
                        /\ Len(P) = R[k].attempt + 1
                        /\ Len(D) = R[k].attempt
                        /\ Len(raws) >= c
                        /\ raws[c] = R[k].resp.content
                        /\ c = Len(calls) => api_pc = "returned"
                  /\ (~R[k].resp.ok /\ ~SentToFallback(R[k])
                         /\ R[k].attempt = MAX_API_RETRIES - 1) =>
                        /\ k = Len(R)
                        /\ c = Len(calls)
                        /\ api_pc = "raised"
                        /\ gs_pc = "propagated"
                        /\ last_error = R[k].resp.msg
                        /\ Len(D) = MAX_API_RETRIES - 1
                        /\ delays[Len(delays)] = D[Len(D)]

\* two transient failures, then a success at the third attempt
C4_ThirdAttemptSucceeds ==
    /\ Len(calls) = 1
    /\ api_pc = "returned"
    /\ Len(requests) = 3
    /\ \A k \in 1..2 : requests[k].resp = Failure({"503"})
    /\ requests[3].resp = Success(RawValid)
    /\ requests[3].attempt = 2
    /\ raws = <<RawValid>>
    /\ [k \in 1..Len(delays) |-> delays[k].seconds] = <<5, 10>>

\* C5 as stated: a generate call sends at most one fallback request, with no
\* backoff delay of the call before it, and its primary requests stay within
\* the 3 attempts.
C5_SingleImmediateFallback ==
    \A c \in 1..Len(calls) :
        LET F == RequestsOf(c, "fallback")
            P == RequestsOf(c, "primary")
        IN  /\ Len(F) <= 1
            /\ \A k \in 1..Len(F) : F[k].slept = P[1].slept
            /\ Len(P) <= MAX_API_RETRIES

\* C6: a failed request whose message matches no transient keyword, and which
\* is not a system-role rejection sent to the fallback, is the last request
\* of the run: generate raises that error, no delay and no request follow.
C6_NonTransientRaisesImmediately ==
    \A i \in 1..Len(requests) :
        LET r == requests[i] IN
        (~r.resp.ok /\ ~MatchesTransientKeyword(r.resp.msg) /\ ~SentToFallback(r)) =>
            /\ i = Len(requests)
            /\ Len(delays) = r.slept
            /\ api_pc = "raised"
            /\ gs_pc = "propagated"
            /\ last_error = r.resp.msg

\* a non-transient failure at the second attempt, after one backoff
C6_RaisedAtSecondAttempt ==
    /\ api_pc = "raised"
    /\ Len(requests) = 2
    /\ requests[1].resp = Failure({"503"})
    /\ requests[2].kind = "primary"
    /\ requests[2].attempt = 1
    /\ requests[2].resp = Failure({"invalid"})
    /\ Len(delays) = 1

\* what json.loads and model_validate make of the two candidates of a text
CandidateErrors ==
    [raw \in RawSamples |->
        LET as_is == ExtractJson(raw)
            fixed == RepairTruncatedJson(as_is)
        IN  <<TryCandidate(as_is).kind,
              IF fixed.some THEN TryCandidate(fixed.s).kind ELSE "None">>]

BothCandidatesFail(raw) == \A k \in 1..2 : CandidateErrors[raw][k] # "ok"

LastCandidateError(raw) ==
    IF CandidateErrors[raw][2] # "None" THEN CandidateErrors[raw][2]
    ELSE CandidateErrors[raw][1]

PrimaryRequests == SelectSeq(requests, LAMBDA r : r.kind = "primary")

\* C7: generate_structured makes at most two generate calls, with the same
\* prompt and the same messages; the second is made only when both candidates
\* of the first text failed; when both candidates of the second text fail too
\* it raises with the error of the last candidate tried; each call has its own
\* 3 attempts, so at most 6 primary requests are sent.
C7_TwoRoundsSamePrompt ==
    /\ Len(calls) <= 2
    /\ \A c \in 1..Len(calls) : calls[c] = StructuredPrompt
    /\ \A i \in 1..Len(PrimaryRequests) :
          PrimaryRequests[i].messages = PrimaryRequests[1].messages
    /\ Len(calls) = 2 => (Len(raws) >= 1 /\ BothCandidatesFail(raws[1]))
    /\ Len(raws) <= Len(calls)
    /\ \A c \in 1..Len(raws) :
          IF BothCandidatesFail(raws[c])
          THEN IF c = 1 THEN gs_pc # "returned" \/ Len(raws) = 2
               ELSE /\ gs_pc = "raised"
                    /\ gs_last_error.round = 1
                    /\ gs_last_error.kind = LastCandidateError(raws[c])
                    /\ gs_last_error.kind \in {"JSONDecodeError", "ValidationError"}
          ELSE /\ gs_pc = "returned"
               /\ c = Len(raws)
               /\ Validates(gs_result)
    /\ gs_pc = "raised" => (Len(raws) = 2 /\ BothCandidatesFail(raws[2]))
    /\ Len(PrimaryRequests) <= 2 * MAX_API_RETRIES
    /\ \A c \in 1..Len(calls) :
          LET P == RequestsOf(c, "primary") IN
          /\ Len(P) <= MAX_API_RETRIES
          /\ \A k \in 1..Len(P) : P[k].attempt = k - 1

\* both rounds used their three attempts and both texts failed to parse
C7_SixRequestsThenRaised ==
    /\ gs_pc = "raised"
    /\ Len(calls) = 2
    /\ Len(PrimaryRequests) = 2 * MAX_API_RETRIES
    /\ gs_last_error.round = 1

\* ------------------------------------------------------------------------
\* Properties of _repair_truncated_json (specification SpecJson)
\* ------------------------------------------------------------------------

\* C8: for every sampled value x, repairing json.dumps(x) as it is gives a
\* text (never None) that json.loads parses back to x.
C8_RepairKeepsValidJson ==
    cut.closers = 0 =>
        /\ json_pc \in {"repaired", "parsed"} => repaired.some
        /\ json_pc = "parsed" => (parsed.ok /\ parsed.val = x)

\* a nested value whose strings hold a quote, a bracket and a comma
C8_QuotedBracketsRoundTrip ==
    /\ json_pc = "parsed"
    /\ cut.closers = 0
    /\ x = JObj(<< <<"a">>, <<"c">> >>,
                <<JNum(1), JArr(<<JNum(1), JStr(<<"[", ",">>)>>)>>)
    /\ parsed.ok
    /\ parsed.val = x

\* C9: when the document is cut after a complete value inside unclosed
\* arrays and objects, with or without the comma that follows the value, the
\* repair strips that comma and appends the missing closers innermost first:
\* the repaired text is the whole document again and parses to the value.
C9_RepairClosesTruncatedJson ==
    (cut.closers > 0 /\ json_pc \in {"repaired", "parsed"}) =>
        /\ repaired = Some(Dumps(x))
        /\ Len(repaired.s) = Len(doc) - Len(cut.trail) + cut.closers
        /\ json_pc = "parsed" => (parsed.ok /\ parsed.val = x)

\* {"a": "b", "c": [1, 2 cut before its two closers, with a trailing comma
C9_ScenarioTruncatedMidArray ==
    /\ json_pc = "parsed"
    /\ x = ScenarioBValue
    /\ cut = [closers |-> 2, trail |-> <<",">>]
    /\ doc[Len(doc)] = ","
    /\ parsed.ok
    /\ parsed.val = ScenarioBValue

\* ------------------------------------------------------------------------
\* Properties of IterativeRefiner.refine (specification SpecRefineFair)
\* ------------------------------------------------------------------------

\* C10: refine returns, whatever the critique calls answer, and its history
\* never holds more than max_iterations + 1 artifacts, nor has it made more
\* than max_iterations critique calls.
C10_RefineTerminatesBounded ==
    /\ <>(ref_pc = "returned")
    /\ [](Len(history) <= max_iterations + 1 /\ critiques <= max_iterations)

\* the loop ran out of iterations without converging
C10_LoopExhausted ==
    /\ ref_pc = "returned"
    /\ max_iterations = MaxIterations
    /\ iteration = max_iterations + 1
    /\ Len(history) = max_iterations + 1
    /\ returned = history[Len(history)]

\* the labels of the first five candidates, as written
RawLabelSet(art) == {TopFive(art)[i] : i \in 1..Len(TopFive(art))}

\* the k-th artifact of the history has the labels of the one it revised
SameLabelsAt(k) == RawLabelSet(history[k]) = RawLabelSet(history[k - 1])

\* C11 as stated: whenever a revision has the same top-5 label set as the
\* artifact it revised, it is the last artifact of the history, refine has
\* returned it, and the critique call that produced it was the last one.
C11_IdenticalLabelsStop ==
    \A k \in 2..Len(history) :
        SameLabelsAt(k) =>
            /\ k = Len(history)
            /\ ref_pc = "returned"
            /\ returned = history[k]
            /\ critiques = k - 1

\* C11 as the code has it: the same holds when the shared label set is not
\* empty; two artifacts without any candidate never count as converged.
C11_IdenticalNonEmptyLabelsStop ==
    \A k \in 2..Len(history) :
        (SameLabelsAt(k) /\ RawLabelSet(history[k]) # {}) =>
            /\ k = Len(history)
            /\ ref_pc = "returned"
            /\ returned = history[k]
            /\ critiques = k - 1
            /\ outcomes = [j \in 1..(k - 1) |-> "revised"]

\* the second revision repeats the labels of the first, two calls before the cap
C11_ConvergedBeforeCap ==
    /\ ref_pc = "returned"
    /\ max_iterations = MaxIterations
    /\ Len(history) = 3
    /\ SameLabelsAt(3)
    /\ RawLabelSet(history[3]) # {}
    /\ history[3] # history[2]
    /\ ~SameLabelsAt(2)
    /\ critiques = 2

\* C12: whenever refine has returned, the first artifact of the history is
\* the one refine was called with and the last one is the returned artifact;
\* the first artifact of the history never changes.
C12_HistoryEnds ==
    /\ Len(history) >= 1
    /\ history[1] = initial_reasoning
    /\ ref_pc = "returned" => returned = history[Len(history)]

\* refine returned on convergence with a revision that differs from the seed
C12_ReturnedRevision ==
    /\ ref_pc = "returned"
    /\ Len(history) = 3
    /\ outcomes = <<"revised", "revised">>
    /\ critiques < max_iterations
    /\ returned = history[3]
    /\ returned # initial_reasoning

\* C13: a critique call that raised is the last one made; refine has then
\* returned the artifact that was current when the call was made, and the
\* history holds the seed and one revision for each earlier call only.
C13_FailedCritiqueExitsEarly ==
    \A k \in 1..Len(outcomes) :
        outcomes[k] = "raised" =>
            /\ k = Len(outcomes)
            /\ critiques = k
            /\ ref_pc = "returned"
            /\ Len(history) = k
            /\ returned = history[k]
            /\ returned = current

\* the second critique call raised after one revision, before the cap
C13_SecondCallRaised ==
    /\ ref_pc = "returned"
    /\ outcomes = <<"revised", "raised">>
    /\ max_iterations = MaxIterations
    /\ Len(history) = 2
    /\ returned = history[2]
    /\ returned # initial_reasoning

\* ------------------------------------------------------------------------
\* Properties of the arbitrated track (specification SpecArb)
\* ------------------------------------------------------------------------

HasItem(items, sid) == \E i \in 1..Len(items) : items[i].sid = sid

ArtOf(items, sid) == items[CHOOSE i \in 1..Len(items) : items[i].sid = sid].art

SidsOf(items) == {items[i].sid : i \in 1..Len(items)}

\* the normalised labels of the first three candidates of an artifact
RawTopThree(art) ==
    {NormalizeLabel(art[i]) : i \in {j \in 1..Len(art) : j <= 3}}

SharedTopThree(a, b) == Cardinality(RawTopThree(a) \cap RawTopThree(b))

LogIndex(ev) == {k \in 1..Len(arb_log) : arb_log[k].ev = ev}

\* C14: every feedback generation call is made for a specialist whose top-3
\* labels share fewer than 2 labels with the top-3 of the consensus it is
\* compared with, and the feedback map handed to a round has entries for such
\* specialists only.
C14_AlignedNeverGetsFeedback ==
    /\ \A k \in LogIndex("feedback") :
          /\ HasItem(round_results[arb_log[k].round], arb_log[k].sid)
          /\ SharedTopThree(arb_log[k].cons.art,
                            ArtOf(round_results[arb_log[k].round], arb_log[k].sid)) < 2
    /\ \A k \in LogIndex("dispatch") :
          \A sid \in SidsOf(arb_log[k].items) :
              /\ arb_log[k].round > 1
              /\ HasItem(round_results[arb_log[k].round - 1], sid)
              /\ SharedTopThree(arb_log[k].cons.art,
                                ArtOf(round_results[arb_log[k].round - 1], sid)) < 2

\* round 2 is dispatched with feedback for cardio and id, and none for im,
\* whose top-3 shares exactly 2 labels with the consensus top-3
C14_AlignedSpecialistSkipped ==
    /\ arb_pc = "gather"
    /\ round_num = 2
    /\ arb_feedback = <<"cardio", "id">>
    /\ SidsOf(round_results[1]) = SpecialistIds
    /\ SharedTopThree(consensus.art, ArtOf(round_results[1], "im")) = 2

\* the round's results come from all the specialists and no two of them
\* share a top-3 label
EntireDisagreement(items) ==
    /\ SidsOf(items) = SpecialistIds
    /\ \A i, j \in 1..Len(items) :
          i # j => RawTopThree(items[i].art) \cap RawTopThree(items[j].art) = {}

Unaligned(cons, items) ==
    {sid \in SidsOf(items) : SharedTopThree(cons.art, ArtOf(items, sid)) < 2}

FeedbackCallsBefore(k, ok) ==
    {arb_log[j].sid : j \in {i \in LogIndex("feedback") : i < k /\ arb_log[i].ok = ok}}

\* C15 as stated: when the three specialists disagreed entirely in round 1,
\* round 2 is dispatched with feedback for all three of them.
C15_AllThreeReceiveFeedback ==
    \A k \in LogIndex("dispatch") :
        (arb_log[k].round = 2 /\ EntireDisagreement(round_results[1])) =>
            SidsOf(arb_log[k].items) = SpecialistIds

\* C15 as the code has it: of three specialists that disagreed entirely in
\* round 1, at least two share fewer than 2 labels with the consensus top-3;
\* round 2 is dispatched with feedback for exactly those, each generated by a
\* call made before the dispatch, unless a feedback call raised, and then it
\* is dispatched without any feedback.
C15_UnalignedReceiveFeedback ==
    \A k \in LogIndex("dispatch") :
        (arb_log[k].round = 2 /\ EntireDisagreement(round_results[1])) =>
            /\ Cardinality(Unaligned(arb_log[k].cons, round_results[1])) >= 2
            /\ IF FeedbackCallsBefore(k, FALSE) = {}
               THEN /\ SidsOf(arb_log[k].items)
                         = Unaligned(arb_log[k].cons, round_results[1])
                    /\ FeedbackCallsBefore(k, TRUE)
                         = Unaligned(arb_log[k].cons, round_results[1])
               ELSE /\ arb_log[k].items = <<>>
                    /\ Cardinality(FeedbackCallsBefore(k, FALSE)) = 1

\* round 2 is dispatched with feedback for two of three specialists that
\* disagreed entirely: the consensus took two of its top-3 labels from im
C15_TwoOfThreeReceiveFeedback ==
    /\ arb_pc = "gather"
    /\ round_num = 2
    /\ EntireDisagreement(round_results[1])
    /\ arb_feedback = <<"cardio", "id">>
    /\ Unaligned(consensus, round_results[1]) = {"cardio", "id"}

\* the position of a specialist in config.specialists
ConfigIndex(sid) == CHOOSE i \in 1..Len(Specialists) : Specialists[i] = sid

\* items holds exactly the outcomes that are results, in configuration order
HoldsSurvivors(items, outs) ==
    /\ SidsOf(items) = {outs[i].sid : i \in {j \in 1..Len(outs) : outs[j].ok}}
    /\ \A i \in 1..Len(items) : \A j \in 1..Len(outs) :
          items[i].sid = outs[j].sid => items[i].art = outs[j].art
    /\ \A i, j \in 1..Len(items) :
          i < j => ConfigIndex(items[i].sid) < ConfigIndex(items[j].sid)

MergesOfRound(r) == {k \in LogIndex("merge") : arb_log[k].round = r}

\* C16: while a round is gathering, every specialist is either still in
\* flight or has ended, whatever its siblings ended with, and no merge of the
\* round has run; when the round has gathered, every specialist has ended,
\* the round's result map holds exactly those that returned, in
\* configuration order, and the merge is called on that map if and only if it
\* is not empty.
C16_RoundKeepsSurvivors ==
    /\ arb_pc = "gather" =>
          /\ \A sid \in SpecialistIds : (sid \in arb_inflight) <=> ~gathered[sid].done
          /\ MergesOfRound(round_num) = {}
          /\ Len(round_results) = round_num - 1
    /\ \A k \in LogIndex("gather") :
          /\ {arb_log[k].items[i].sid : i \in 1..Len(arb_log[k].items)} = SpecialistIds
          /\ k > 1 /\ arb_log[k - 1].ev = "dispatch" /\ arb_log[k - 1].round = arb_log[k].round
          /\ HoldsSurvivors(round_results[arb_log[k].round], arb_log[k].items)
          /\ IF round_results[arb_log[k].round] = <<>>
             THEN MergesOfRound(arb_log[k].round) = {} /\ arb_pc \in {"synth", "done"}
             ELSE \/ arb_pc = "merge" /\ k = Len(arb_log)
                     /\ \A sid \in SpecialistIds : gathered[sid].done
                  \/ /\ k < Len(arb_log)
                     /\ MergesOfRound(arb_log[k].round) = {k + 1}
                     /\ arb_log[k + 1].items = round_results[arb_log[k].round]

\* cardio raised in round 1 while its siblings returned; the merge of the
\* round is being awaited on the results of im and id
C16_MergeOnTwoSurvivors ==
    /\ arb_pc = "merge"
    /\ round_num = 1
    /\ gathered["cardio"].done /\ ~gathered["cardio"].ok
    /\ [i \in 1..Len(round_results[1]) |-> round_results[1][i].sid] = <<"im", "id">>

\* C17: when every specialist failed in round 1 and the case is finished, no
\* merge call was made and the final report is the one built on the baseline
\* reasoning result, not one synthesised without any reasoning.
C17_AllFailedFallsBackToBaseline ==
    (arb_pc = "done" /\ Len(round_results) >= 1 /\ round_results[1] = <<>>) =>
        /\ LogIndex("merge") = {}
        /\ final_report.reasoning = BaselineReasoning

\* the artifact of the first specialist, in configuration order, among the
\* outcomes that are results
FirstSurvivor(outs) ==
    outs[CHOOSE i \in 1..Len(outs) :
            outs[i].ok /\ \A j \in 1..Len(outs) : outs[j].ok => i <= j].art

GatherOfRound(r) == CHOOSE k \in LogIndex("gather") : arb_log[k].round = r

DispatchOfRound(r) == CHOOSE k \in LogIndex("dispatch") : arb_log[k].round = r

\* C18: after a merge call that raised, no further round is run: the only
\* call that follows is the final synthesis, made with the consensus the
\* failure left, which is the consensus the round was dispatched with when
\* the round is not the first and the result of the first surviving
\* specialist, in configuration order, when it is round 1.
C18_MergeFailureKeepsConsensus ==
    \A k \in LogIndex("merge") :
        ~arb_log[k].ok =>
            /\ arb_pc \in {"synth", "done"}
            /\ round_num = arb_log[k].round
            /\ consensus.some
            /\ consensus =
                  IF arb_log[k].round > 1
                  THEN arb_log[DispatchOfRound(arb_log[k].round)].cons
                  ELSE Consensus(FirstSurvivor(arb_log[GatherOfRound(1)].items))
            /\ IF arb_pc = "synth" THEN k = Len(arb_log)
               ELSE /\ Len(arb_log) = k + 1
                    /\ arb_log[k + 1].ev = "synth"
                    /\ arb_log[k + 1].cons = consensus
                    /\ arb_log[k + 1].ok => final_report = SynthesisReport(consensus)

\* im raised in round 1 and the merge of cardio and id raised: the report is
\* synthesised from cardio's result
C18_FirstSurvivorBecomesConsensus ==
    /\ arb_pc = "done"
    /\ round_num = 1
    /\ ~gathered["im"].ok /\ gathered["cardio"].ok /\ gathered["id"].ok
    /\ LogIndex("merge") # {}
    /\ consensus = Consensus(gathered["cardio"].art)
    /\ final_report = SynthesisReport(consensus)

\* every gathered round kept at least one specialist result and no merge raised
AllRoundsSucceeded ==
    /\ \A k \in LogIndex("gather") :
          \E i \in 1..Len(arb_log[k].items) : arb_log[k].items[i].ok
    /\ \A k \in LogIndex("merge") : arb_log[k].ok

\* the rounds dispatched so far are rounds 1, 2, ... up to the cap, each once,
\* and the history has one entry for each of them that has gathered
RoundsWithinCap ==
    /\ Cardinality(LogIndex("dispatch")) <= arb_max_rounds
    /\ {arb_log[k].round : k \in LogIndex("dispatch")}
          = 1..Cardinality(LogIndex("dispatch"))
    /\ Len(round_results) = Cardinality(LogIndex("gather"))
    /\ Len(round_results) <= arb_max_rounds
    /\ Cardinality(LogIndex("dispatch")) - Len(round_results) \in {0, 1}

\* once the loop is over after rounds that all succeeded, every round of the
\* cap was run and the consensus is what the merge of the last one returned
LastMergeIsConsensus ==
    (arb_pc \in {"synth", "done"} /\ AllRoundsSucceeded) =>
        /\ Len(round_results) = arb_max_rounds
        /\ Len(merge_outputs) = arb_max_rounds
        /\ consensus = Consensus(merge_outputs[arb_max_rounds])
        /\ \A k \in LogIndex("synth") : arb_log[k].cons = consensus
        /\ final_report.source = "synthesis" => final_report.reasoning = consensus

\* C32: at most max_rounds rounds are run, the round history gets one entry
\* per round run and only ever grows at its end, and when every round and
\* every merge succeeded exactly max_rounds rounds were run and the final
\* synthesis is called with the output of the last round's merge.
C32_RoundsBoundedHistoryAppendOnly ==
    /\ [](RoundsWithinCap /\ LastMergeIsConsensus)
    /\ [][IsPrefix(round_results, round_results')]_vars

\* C32 witness: two rounds of a two-round configuration succeeded, their
\* merges differ, and the report was synthesised from the second merge
C32_TwoRoundsSecondMergeWins ==
    /\ arb_pc = "done"
    /\ arb_max_rounds = 2
    /\ AllRoundsSucceeded
    /\ Len(round_results) = 2
    /\ merge_outputs[1] # merge_outputs[2]
    /\ final_report = SynthesisReport(Consensus(merge_outputs[2]))

\* the round of the last dispatch, 0 before the first
LastDispatched ==
    IF LogIndex("dispatch") = {} THEN 0
    ELSE arb_log[CHOOSE k \in LogIndex("dispatch") :
                    \A j \in LogIndex("dispatch") : j <= k].round

\* the feedback calls made on the results of round r, by how they ended
FeedbackCallsOn(r, ok) ==
    {arb_log[k].sid : k \in {j \in LogIndex("feedback") :
                                arb_log[j].round = r /\ arb_log[j].ok = ok}}

\* the feedback dict generate_feedback returned on the results of round r:
\* the specialists it generated a text for, none when it raised
FeedbackReturned(r) ==
    IF FeedbackCallsOn(r, FALSE) # {} THEN {} ELSE FeedbackCallsOn(r, TRUE)

\* C33: every dispatch hands a task to every configured specialist, whatever
\* it returned in the round before, and from round 2 on the additional
\* context of each task is the text the feedback dict of the round holds for
\* that specialist's own id, or empty when the dict has none for it; in
\* round 1 it is empty.
C33_FeedbackPerSpecialist ==
    LastDispatched >= 1 =>
        /\ arb_pc = "gather" =>
              \A sid \in SpecialistIds : sid \in arb_inflight \/ gathered[sid].done
        /\ \A k \in LogIndex("gather") : Len(arb_log[k].items) = Len(Specialists)
        /\ \A sid \in SpecialistIds :
              /\ contexts[sid].some => contexts[sid].about = sid
              /\ contexts[sid] =
                    IF LastDispatched > 1 /\ sid \in FeedbackReturned(LastDispatched - 1)
                    THEN FeedbackText(sid, LastDispatched - 1)
                    ELSE NoContext

\* C33 witness: round 2 has just been dispatched to all three specialists;
\* in round 1 the first was aligned, the second was not and the third failed,
\* and only the second is given a feedback text, its own
C33_RoundTwoOnlyCardioHasFeedback ==
    /\ arb_pc = "gather"
    /\ LastDispatched = 2
    /\ arb_inflight = SpecialistIds
    /\ SidsOf(round_results[1]) = {"im", "cardio"}
    /\ contexts["cardio"] = FeedbackText("cardio", 1)
    /\ contexts["im"] = NoContext
    /\ contexts["id"] = NoContext

\* the failed feedback calls in the log
FailedFeedbackCalls == {k \in LogIndex("feedback") : ~arb_log[k].ok}

\* the event after a failed feedback call is the dispatch of the next round,
\* with an empty feedback dict and the consensus unchanged
DispatchedWithoutFeedback(k) ==
    /\ Len(arb_log) > k
    /\ arb_log[k + 1].ev = "dispatch"
    /\ arb_log[k + 1].round = arb_log[k].round + 1
    /\ arb_log[k + 1].items = <<>>
    /\ arb_log[k + 1].cons = arb_log[k].cons

\* C38: when a feedback call on the results of a round fails, the texts
\* already generated on that round are dropped with it: the next round is
\* dispatched all the same, every specialist task of it has an empty
\* additional context, and no further feedback call is made on that round.
C38_FailedFeedbackDropsAll ==
    /\ \A k \in FailedFeedbackCalls :
          /\ DispatchedWithoutFeedback(k)
          /\ \A j \in LogIndex("feedback") :
                arb_log[j].round = arb_log[k].round => j <= k
    /\ (LastDispatched > 1 /\ FeedbackCallsOn(LastDispatched - 1, FALSE) # {}) =>
          /\ arb_feedback = <<>>
          /\ \A sid \in SpecialistIds : contexts[sid] = NoContext

\* C38 witness: on round 1 a feedback text was generated for one specialist
\* and the call for another failed; round 2 is running with no context for
\* anyone
C38_SecondFeedbackCallFailed ==
    /\ arb_pc = "gather"
    /\ LastDispatched = 2
    /\ FeedbackCallsOn(1, TRUE) # {}
    /\ FeedbackCallsOn(1, FALSE) # {}
    /\ arb_inflight = SpecialistIds
    /\ \A sid \in SpecialistIds : contexts[sid] = NoContext

\* ------------------------------------------------------------------------
\* Properties of wait_until_ready (specification SpecReady)
\* ------------------------------------------------------------------------

FailedProbes == {k \in 1..Len(probes) : ~probes[k].ok}

\* C19 as stated: when wait_until_ready was given a callback and has
\* returned, the callback was invoked once for every failed probe.
C19_CallbackAfterEveryFailedProbe ==
    (ready_pc = "returned" /\ has_on_waiting) =>
        Len(waiting_calls) = Cardinality(FailedProbes)

\* C19 as the code has it: the callback is invoked, with the elapsed time
\* the probe was observed at, after every failed probe observed before the
\* timeout, and not after the failed probe wait_until_ready gives up on.
C19_CallbackWhileStillWaiting ==
    IF has_on_waiting
    THEN /\ waiting_calls =
               [k \in 1..Cardinality({j \in FailedProbes : probes[j].at < ready_timeout})
                    |-> probes[k].at]
         /\ Len(waiting_calls) =
               Cardinality(FailedProbes) - (IF ready_result = "False" THEN 1 ELSE 0)
    ELSE waiting_calls = <<>>

\* three probes failed, the callback was invoked after the first two and
\* wait_until_ready gave up on the third
C19_GaveUpAfterTwoCallbacks ==
    /\ ready_pc = "returned"
    /\ ready_result = "False"
    /\ has_on_waiting
    /\ Cardinality(FailedProbes) = 3
    /\ Len(waiting_calls) = 2

\* C20: wait_until_ready ends by returning True or False only; it has made
\* at least one probe; it returns True exactly when a probe succeeded, that
\* probe being the last one made, and False only after a failed probe
\* observed at an elapsed time that has reached the timeout; as long as it
\* has not returned, no probe has succeeded and none was observed at or
\* after the timeout.
C20_ReturnsWhetherReady ==
    /\ ready_pc \in {"probe", "sleep", "returned"}
    /\ IF ready_pc = "returned"
       THEN /\ ready_result \in {"True", "False"}
            /\ Len(probes) >= 1
            /\ ready_result = "True" <=> \E k \in 1..Len(probes) : probes[k].ok
            /\ ready_result = "True" =>
                  /\ probes[Len(probes)].ok
                  /\ FailedProbes = 1..(Len(probes) - 1)
            /\ ready_result = "False" =>
                  /\ ~probes[Len(probes)].ok
                  /\ probes[Len(probes)].at >= ready_timeout
       ELSE /\ ready_result = "None"
            /\ \A k \in 1..Len(probes) :
                  ~probes[k].ok /\ probes[k].at < ready_timeout
    /\ Len(probes) = ready_attempt

\* with timeout 0 one probe is made, it errors at once, and False is returned
C20_TimeoutZeroProbesOnce ==
    /\ ready_pc = "returned"
    /\ ready_timeout = 0
    /\ ready_result = "False"
    /\ probes = <<[ok |-> FALSE, at |-> 0]>>

\* what parsing and validating the extracted text as it is gives, per reply
AsIsVerdict == [raw \in RawSamples |-> TryCandidate(ExtractJson(raw))]

\* C30: in every round the text as extracted is the first candidate given to
\* json.loads and the repaired text is given to it only when the first one
\* failed; a round whose as-is candidate parses and validates returns that
\* value, and a round that accepted a candidate is the last one: the call has
\* returned and no generation call follows.
C30_AsIsFirstRepairedOnFailure ==
    \A k \in 1..Len(tries) :
        /\ tries[k].tried[1] = 1
        /\ AsIsVerdict[raws[k]].kind = "ok" =>
              /\ tries[k].tried = <<1>>
              /\ tries[k].accepted = 1
              /\ gs_result = AsIsVerdict[raws[k]].value
        /\ AsIsVerdict[raws[k]].kind # "ok" => tries[k].accepted # 1
        /\ tries[k].accepted # 0 =>
              /\ tries[k].tried[Len(tries[k].tried)] = tries[k].accepted
              /\ k = Len(tries)
              /\ Len(calls) = k
              /\ gs_pc = "returned"

\* C30 witness: the first round tried both candidates and accepted none, the
\* second accepted the text as extracted without trying its repair
C30_SecondRoundAcceptsAsIs ==
    /\ gs_pc = "returned"
    /\ Len(tries) = 2
    /\ tries[1] = [tried |-> <<1, 2>>, accepted |-> 0]
    /\ tries[2] = [tried |-> <<1>>, accepted |-> 1]
    /\ gs_result # JNull

\* ------------------------------------------------------------------------
\* Properties of _has_converged (specification SpecRefine)
\* ------------------------------------------------------------------------

\* |A \cap B| / |A \cup B| >= 1 - threshold, the threshold in hundredths; the
\* quotient does not exist for two empty sets
JaccardReaches(A, B, threshold) ==
    /\ A \cup B # {}
    /\ 100 * Cardinality(A \cap B) >= (100 - threshold) * Cardinality(A \cup B)

\* the k-th and k+1-th artifact of the history pass the claimed test
Similar(k) ==
    JaccardReaches(LabelSet(history[k]), LabelSet(history[k + 1]),
                   convergence_threshold)

\* refine returned from inside the loop because the last revision converged:
\* the iteration counter was not advanced past it
StoppedOnConvergence ==
    /\ ref_pc = "returned"
    /\ Len(history) >= 2
    /\ outcomes[Len(outcomes)] = "revised"
    /\ iteration = Len(history) - 1

JsonBlocks(bs) == SelectSeq(bs, LAMBDA b : b.kind = "json")

\* the first block opened by a json fence if there is one, else the first block
ChosenBlock(bs) == IF JsonBlocks(bs) # <<>> THEN Head(JsonBlocks(bs)) ELSE Head(bs)

\* what stands between the opening fence of a block (the three grave accents,
\* with the word json for a json block) and the next fence or the end of the
\* text, without the white space around it
BlockContent(b) ==
    Strip((IF b.kind = "json" THEN <<>> ELSE InfoString(b.kind))
          \o <<"\n">> \o b.body)

C29_BracketsInStringsIgnored ==
    (ext_pc = "returned" /\ reply.blocks = <<>> /\ reply.kept = 0) =>
        extracted = Dumps(reply.bare)

\* t ends with s
IsSuffix(s, t) == Len(s) <= Len(t) /\ SubSeq(t, Len(t) - Len(s) + 1, Len(t)) = s

\* C39: for a text without a fence whose JSON value was cut short, so that
\* its first opening bracket is never closed, the candidate _extract_json
\* returns holds the payload from that bracket to the end of the text (up to
\* white space at the end); it is never only a balanced part of it.
C39_TruncatedPayloadKept ==
    (ext_pc = "returned" /\ reply.blocks = <<>> /\ reply.kept # 0) =>
        IsSuffix(RStrip(Payload(reply)), extracted)

\* ------------------------------------------------------------------------
\* Properties of agent_websocket (specification SpecWs)
\* ------------------------------------------------------------------------

\* the positions of the messages of a type
SentIndex(type) == {k \in 1..Len(ws_sent) : ws_sent[k].type = type}

PipelineMessages == {"step_update", "report", "complete"}

\* no message of the pipeline without a wait_until_ready that returned True,
\* and the orchestrator has not left its start before that
GatedByReadiness ==
    /\ (\E k \in 1..Len(ws_sent) : ws_sent[k].type \in PipelineMessages) =>
          ready_result = "True" /\ SentIndex("model_ready") # {}
    /\ pc # "start" => ready_result = "True" /\ SentIndex("model_ready") # {}
    /\ ready_result # "True" => SentIndex("model_ready") = {}

\* readiness was not reached: once the connection is closed, the last message
\* the client got, if it stayed, is the error message
NotReadyEndsWithError ==
    (ready_result = "False" /\ ws_pc = "closed" /\ ws_connected) =>
        /\ ws_sent # <<>>
        /\ ws_sent[Len(ws_sent)].type = "error"
        /\ Cardinality(SentIndex("error")) = 1

\* model_ready, then the step updates, then the report, then complete
InProtocolOrder ==
    /\ \A i \in SentIndex("model_ready") : \A j \in SentIndex("step_update") : i < j
    /\ \A i \in SentIndex("step_update") : \A j \in SentIndex("report") : i < j
    /\ \A i \in SentIndex("complete") : i = Len(ws_sent)
    /\ Cardinality(SentIndex("report")) <= 1
    /\ SentIndex("report") # {} =>
          /\ GetResult # "None"
          /\ Cardinality(SentIndex("step_update")) = Len(emitted)
    /\ SentIndex("complete") # {} =>
          /\ pc = "done"
          /\ GetResult # "None" <=> SentIndex("report") # {}
          /\ [k \in 1..Len(emitted) |->
                 ws_sent[(CHOOSE m \in SentIndex("model_ready") : TRUE) + k].step]
               = emitted

\* C34: the pipeline starts and its messages are sent only after
\* wait_until_ready returned True; when it returned False the client gets the
\* error message and never a step_update, report or complete; otherwise
\* model_ready comes before every step_update, every step_update before the
\* report, which is sent only when there is a final report, and complete is
\* the last message.
C34_ReadinessGateAndOrder ==
    GatedByReadiness /\ NotReadyEndsWithError /\ InProtocolOrder

\* C34 witness: the model was warming up, then ready; every step completed
\* and the client got the updates, the report and complete
C34_FullConversation ==
    /\ ws_pc = "closed"
    /\ ws_connected
    /\ SentIndex("warming_up") # {}
    /\ case.include_drug_check /\ case.include_guidelines
    /\ Cardinality(SentIndex("step_update")) = 12
    /\ SentIndex("report") = {Len(ws_sent) - 1}
    /\ SentIndex("complete") = {Len(ws_sent)}

\* ------------------------------------------------------------------------
\* Properties of generate_structured's rounds (specification SpecGen)
\* ------------------------------------------------------------------------

\* generate raised: its retries were exhausted or the failure was not transient
GenerateHasRaised == api_pc = "raised"

\* the error left generate_structured from the round in which generate raised:
\* one generate call per round so far, one text received per earlier round
PropagatedAtOnce ==
    /\ gs_pc = "propagated"
    /\ Len(calls) = gs_attempt + 1
    /\ Len(raws) = gs_attempt
    /\ gs_result = JNull

\* a second round was started only on a text that was received and of which
\* no candidate parsed and validated
SecondRoundOnlyAfterBadText ==
    Len(calls) > 1 =>
        /\ Len(raws) >= 1
        /\ tries[1].accepted = 0
        /\ gs_last_error.kind \notin {"none", "ok"}

\* C37: when generate raises in the first round, generate_structured lets the
\* error through at once and makes no further generate call; a second round
\* exists only after a received text failed to parse or validate.
C37_GenerateErrorPropagatesAtOnce ==
    /\ [](GenerateHasRaised => PropagatedAtOnce)
    /\ [](SecondRoundOnlyAfterBadText)
    /\ [][gs_pc = "propagated" => calls' = calls]_vars

\* C37 witness: the first round's generate call gave up after all its
\* transient retries, with one generate call made and no text received
C37_FirstRoundRetriesExhausted ==
    /\ GenerateHasRaised
    /\ gs_pc = "propagated"
    /\ gs_attempt = 0
    /\ Len(calls) = 1
    /\ raws = <<>>
    /\ Len(delays) = MAX_API_RETRIES - 1

====
